---- MODULE Spec2Model ----
(***************************************************************************)
(* A model of the Pulse signal pipeline: the SignalTracker state machine   *)
(* (src/backend/signals/signal_tracker.py) and the MultiSourceCollector    *)
(* failover (src/backend/data/collectors/multi_source_collector.py).       *)
(*                                                                         *)
(* Units: prices and levels are integers in tenths (100.0 is 1000), time   *)
(* is in whole hours, confidence in whole percent.                         *)
(***************************************************************************)
EXTENDS Integers, Sequences, FiniteSets, TLC

VARIABLES
    now,              \* datetime.utcnow(), in hours since the tracker was built
    active_signals,   \* SignalTracker.active_signals: dict in insertion order
    symbol_signals,   \* SignalTracker.symbol_signals: symbol -> list of ids
    results,          \* what the last update_prices returned
    db_calls,         \* the storage calls made by the last operation, in order
    observed,         \* the two indexes as seen at every await of the last operation
    last_op,          \* the last operation and its inputs
    sources,          \* MultiSourceCollector.sources, in preference order
    current_source_index,   \* counted from 1 here, from 0 in the code
    is_initialized,   \* MultiSourceCollector.is_initialized
    lookup,           \* the last collector operation: its adapter calls and its result
    cycle,            \* the data collection of the last analysis cycle
    gen_clock,        \* datetime.utcnow() as the generator reads it, in minutes
    settings,         \* the Settings the SignalGenerator was built with
    recent_signals,   \* SignalGenerator.recent_signals
    symbol_cooldowns, \* SignalGenerator.symbol_cooldowns: symbol -> time
    generated,        \* the last generator call: its inputs and the signals it returned
    signal_records,   \* the signals table of storage: the set of SignalRecord rows
    saved,            \* the last save_signal call: the signal and what was returned
    applied,          \* the function applied on its own: its name and arguments
    returned          \* what that function returned

tracker_vars == <<now, active_signals, symbol_signals, results, db_calls, observed, last_op>>
collector_vars == <<sources, current_source_index, is_initialized, lookup, cycle>>
generator_vars == <<gen_clock, settings, recent_signals, symbol_cooldowns, generated>>
storage_vars == <<signal_records, saved>>
function_vars == <<applied, returned>>
vars == <<now, active_signals, symbol_signals, results, db_calls, observed, last_op,
          sources, current_source_index, is_initialized, lookup, cycle,
          gen_clock, settings, recent_signals, symbol_cooldowns, generated,
          signal_records, saved, applied, returned>>

----------------------------------------------------------------------------
(* Bounds of the model *)

MaxTicks == 1

Symbols == {"BTC-USD", "ETH-USD"}
Directions == {"BUY", "SELL"}
Confidences == {70, 100}
Prices == {985, 1015, 1050}

----------------------------------------------------------------------------
(* Signal *)

\* Signal.__post_init__: the id is symbol, direction and the epoch time
SignalId(symbol, direction, timestamp) == <<symbol, direction, timestamp>>

\* A signal as the generator builds it at entry price 100.0: TP offsets 1.5%,
\* 3.0%, 5.0% and stop-loss offset 0.8%, mirrored for SELL; hit flags false
NewSignal(symbol, direction, confidence, timestamp) ==
    [signal_id     |-> SignalId(symbol, direction, timestamp),
     symbol        |-> symbol,
     direction     |-> direction,
     timestamp     |-> timestamp,
     entry_price   |-> 1000,
     current_price |-> 1000,
     tp1           |-> IF direction = "BUY" THEN 1015 ELSE 985,
     tp2           |-> IF direction = "BUY" THEN 1030 ELSE 970,
     tp3           |-> IF direction = "BUY" THEN 1050 ELSE 950,
     stop_loss     |-> IF direction = "BUY" THEN 992 ELSE 1008,
     confidence    |-> confidence,
     tp1_hit       |-> FALSE,
     tp2_hit       |-> FALSE,
     tp3_hit       |-> FALSE,
     stop_loss_hit |-> FALSE]

is_buy(signal) == signal.direction = "BUY"

----------------------------------------------------------------------------
(* Helpers on the two dictionaries *)

ActiveIds(active) == {active[i].signal_id : i \in DOMAIN active}

IndexOf(active, signal_id) ==
    CHOOSE i \in DOMAIN active : active[i].signal_id = signal_id

GetSignal(active, signal_id) == active[IndexOf(active, signal_id)]

\* del d[key] on an insertion-ordered dict
DictDelete(active, signal_id) ==
    LET i == IndexOf(active, signal_id)
    IN  SubSeq(active, 1, i - 1) \o SubSeq(active, i + 1, Len(active))

\* d[key] = value: in place when the key is present, at the end otherwise
DictSet(active, signal) ==
    IF signal.signal_id \in ActiveIds(active)
    THEN [active EXCEPT ![IndexOf(active, signal.signal_id)] = signal]
    ELSE Append(active, signal)

\* symbol_signals.get(symbol, [])
IdsOf(index, symbol) == IF symbol \in DOMAIN index THEN index[symbol] ELSE <<>>

InSeq(s, x) == \E i \in DOMAIN s : s[i] = x

\* list.remove(x): removes the first occurrence
ListRemove(s, x) ==
    LET i == CHOOSE k \in DOMAIN s : s[k] = x /\ \A j \in 1..(k - 1) : s[j] # x
    IN  SubSeq(s, 1, i - 1) \o SubSeq(s, i + 1, Len(s))

\* What an observer of the tracker sees: the keys of both indexes
Snapshot(t) == [active |-> ActiveIds(t.active_signals), index |-> t.symbol_signals]

\* An await inside a tracker operation: another coroutine may look at the tracker
Await(t) == [t EXCEPT !.observed = @ \cup {Snapshot(t)}]

----------------------------------------------------------------------------
(* The storage contract as the tracker uses it (DatabaseManager).  Every   *)
(* method catches its own failures and returns a bool, so a call raises    *)
(* only when it cannot be made at all: a keyword the method does not take. *)

UpdateSignalHitsParams ==
    {"tp1_hit", "tp2_hit", "tp3_hit", "stop_loss_hit", "current_price"}

DbCall(call, signal_id, reason, fields, event) ==
    [call |-> call, signal_id |-> signal_id, reason |-> reason,
     fields |-> fields, event |-> event]

\* What the method returns: True, or False when the session or the commit failed
\* (every method catches the failure, logs it and returns False)
Returned(t, call) == call @@ [ok |-> t.storage_up]

\* A storage whose update_signal_hits raises when the write fails
update_signal_hits_raising(t, signal_id, fields) ==
    IF DOMAIN fields \subseteq UpdateSignalHitsParams /\ t.storage_up
    THEN [t |-> Await([t EXCEPT !.db_calls =
                    Append(@, Returned(t, DbCall("update_signal_hits", signal_id, "", fields, "")))]),
          raised |-> FALSE]
    ELSE [t |-> t, raised |-> TRUE]

\* await self.db.update_signal_hits(signal_id, **fields)
update_signal_hits(t, signal_id, fields) ==
    IF DOMAIN fields \subseteq UpdateSignalHitsParams
    THEN [t |-> Await([t EXCEPT !.db_calls =
                    Append(@, Returned(t, DbCall("update_signal_hits", signal_id, "", fields, "")))]),
          raised |-> FALSE]
    ELSE [t |-> t, raised |-> TRUE]      \* TypeError: unexpected keyword argument

\* await self.db.mark_signal_closed(signal_id, reason)
mark_signal_closed(t, signal_id, reason) ==
    Await([t EXCEPT !.db_calls =
        Append(@, Returned(t, DbCall("mark_signal_closed", signal_id, reason, <<>>, "")))])

\* SignalTracker._save_tracking_event
_save_tracking_event(t, event) ==
    Await([t EXCEPT !.db_calls =
        Append(@, Returned(t, DbCall("save_tracking_event", event.signal_id, "", <<>>,
                                     event.event)))])

----------------------------------------------------------------------------
(* SignalTracker *)

TrackingResult(signal, event, current_price, target_price) ==
    [signal_id |-> signal.signal_id, symbol |-> signal.symbol, event |-> event,
     current_price |-> current_price, target_price |-> target_price]

\* SignalTracker._add_new_signal
_add_new_signal(t, signal) ==
    [t EXCEPT
        !.active_signals = DictSet(@, signal),
        !.symbol_signals =
            [s \in DOMAIN @ \cup {signal.symbol} |->
                IF s = signal.symbol
                THEN Append(IdsOf(@, s), signal.signal_id)
                ELSE @[s]]]

\* A _close_signal that suspends between the two removals
_close_signal_suspending(t, signal_id, reason) ==
    IF signal_id \notin ActiveIds(t.active_signals) THEN t
    ELSE
        LET signal  == GetSignal(t.active_signals, signal_id)
            deleted == Await([t EXCEPT !.active_signals = DictDelete(@, signal_id)])
            rest    == ListRemove(t.symbol_signals[signal.symbol], signal_id)
        IN  mark_signal_closed(
                [deleted EXCEPT !.symbol_signals =
                    IF rest = <<>>
                    THEN [s \in DOMAIN @ \ {signal.symbol} |-> @[s]]
                    ELSE [@ EXCEPT ![signal.symbol] = rest]],
                signal_id, reason)

\* SignalTracker._close_signal
_close_signal(t, signal_id, reason) ==
    IF signal_id \notin ActiveIds(t.active_signals) THEN t
    ELSE
        LET signal  == GetSignal(t.active_signals, signal_id)
            deleted == [t EXCEPT !.active_signals = DictDelete(@, signal_id)]
        IN  IF signal.symbol \notin DOMAIN t.symbol_signals
            THEN mark_signal_closed(deleted, signal_id, reason)
            ELSE IF ~InSeq(t.symbol_signals[signal.symbol], signal_id)
            THEN deleted                 \* list.remove raises ValueError: caught, logged
            ELSE
                LET rest == ListRemove(t.symbol_signals[signal.symbol], signal_id)
                    unindexed ==
                        [deleted EXCEPT !.symbol_signals =
                            IF rest = <<>>
                            THEN [s \in DOMAIN @ \ {signal.symbol} |-> @[s]]
                            ELSE [@ EXCEPT ![signal.symbol] = rest]]
                IN  mark_signal_closed(unindexed, signal_id, reason)

\* max(existing_signals, key=lambda s: s.timestamp): the first of the latest
LatestSignal(existing) ==
    existing[CHOOSE i \in DOMAIN existing :
                /\ \A j \in DOMAIN existing : existing[j].timestamp <= existing[i].timestamp
                /\ \A j \in 1..(i - 1) : existing[j].timestamp < existing[i].timestamp]

\* [self.active_signals[sid] for sid in existing_signal_ids if sid in self.active_signals]
RECURSIVE ExistingSignals(_, _)
ExistingSignals(active, ids) ==
    IF ids = <<>> THEN <<>>
    ELSE IF Head(ids) \in ActiveIds(active)
         THEN <<GetSignal(active, Head(ids))>> \o ExistingSignals(active, Tail(ids))
         ELSE ExistingSignals(active, Tail(ids))

\* An evaluation that lets every new signal in next to the existing ones
_evaluate_always_add(t, new_signal, existing_signal_ids) == "add"

\* An evaluation whose same-direction threshold is inclusive: a difference of
\* exactly 10 replaces
_evaluate_inclusive(t, new_signal, existing_signal_ids) ==
    LET existing_signals == ExistingSignals(t.active_signals, existing_signal_ids)
    IN  IF existing_signals = <<>> THEN "add"
        ELSE
            LET latest_signal   == LatestSignal(existing_signals)
                confidence_diff == new_signal.confidence - latest_signal.confidence
            IN  IF new_signal.direction = latest_signal.direction
                THEN IF confidence_diff >= 10 THEN "replace" ELSE "reinforce"
                ELSE IF confidence_diff > 15 \/ -confidence_diff > 15
                     THEN IF confidence_diff > 0 THEN "replace" ELSE "keep_existing"
                     ELSE "conflict"

\* SignalTracker._evaluate_multiple_signals
_evaluate_multiple_signals(t, new_signal, existing_signal_ids) ==
    LET existing_signals == ExistingSignals(t.active_signals, existing_signal_ids)
    IN  IF existing_signals = <<>> THEN "add"
        ELSE
            LET latest_signal   == LatestSignal(existing_signals)
                confidence_diff == new_signal.confidence - latest_signal.confidence
            IN  IF new_signal.direction = latest_signal.direction
                THEN IF confidence_diff > 10 THEN "replace" ELSE "reinforce"
                ELSE IF confidence_diff > 15 \/ -confidence_diff > 15
                     THEN IF confidence_diff > 0 THEN "replace" ELSE "keep_existing"
                     ELSE "conflict"

\* A reinforcement that takes over the hit flags of the reinforcing signal
_reinforce_signal_flags(t, signal_id, reinforcing_signal) ==
    IF signal_id \notin ActiveIds(t.active_signals) THEN t
    ELSE
        LET signal == GetSignal(t.active_signals, signal_id)
        IN  [t EXCEPT !.active_signals =
                DictSet(@, [signal EXCEPT
                    !.confidence = (@ + reinforcing_signal.confidence) \div 2,
                    !.tp1_hit = reinforcing_signal.tp1_hit,
                    !.tp2_hit = reinforcing_signal.tp2_hit,
                    !.tp3_hit = reinforcing_signal.tp3_hit,
                    !.stop_loss_hit = reinforcing_signal.stop_loss_hit])]

\* A reinforcement that keeps the higher of the two confidences
_reinforce_signal_max(t, signal_id, reinforcing_signal) ==
    IF signal_id \notin ActiveIds(t.active_signals) THEN t
    ELSE
        LET signal == GetSignal(t.active_signals, signal_id)
        IN  [t EXCEPT !.active_signals =
                DictSet(@, [signal EXCEPT
                    !.confidence = IF @ > reinforcing_signal.confidence THEN @
                                   ELSE reinforcing_signal.confidence])]

\* SignalTracker._reinforce_signal: the confidence is averaged in memory, the
\* update_signal_hits call passes confidence= and reinforced_count=
_reinforce_signal(t, signal_id, reinforcing_signal) ==
    IF signal_id \notin ActiveIds(t.active_signals) THEN t
    ELSE
        LET signal == GetSignal(t.active_signals, signal_id)
            averaged ==
                [signal EXCEPT !.confidence = (@ + reinforcing_signal.confidence) \div 2]
            t1 == [t EXCEPT !.active_signals = DictSet(@, averaged)]
            r  == update_signal_hits(t1, signal_id,
                      [confidence |-> averaged.confidence, reinforced_count |-> 1])
        IN  IF r.raised THEN r.t
            ELSE _save_tracking_event(r.t,
                    TrackingResult(averaged, "SIGNAL_REINFORCED",
                                   reinforcing_signal.current_price, averaged.entry_price))

\* SignalTracker._mark_conflict: the update_signal_hits call passes conflict_count=
_mark_conflict(t, signal_id, conflicting_signal_id) ==
    IF signal_id \notin ActiveIds(t.active_signals) THEN t
    ELSE
        LET signal == GetSignal(t.active_signals, signal_id)
            r == update_signal_hits(t, signal_id, [conflict_count |-> 1])
        IN  IF r.raised THEN r.t
            ELSE _save_tracking_event(r.t,
                    TrackingResult(signal, "SIGNAL_CONFLICTED",
                                   signal.current_price, signal.entry_price))

\* for signal_id in existing_signal_ids: await self._close_signal(signal_id, "REPLACED")
\* The list walked is the one _close_signal removes from.
RECURSIVE CloseExisting(_, _, _)
CloseExisting(t, symbol, i) ==
    LET ids == IdsOf(t.symbol_signals, symbol)
    IN  IF i > Len(ids) THEN t
        ELSE CloseExisting(_close_signal(t, ids[i], "REPLACED"), symbol, i + 1)

\* SignalTracker._handle_multiple_signals
_handle_multiple_signals(t, new_signal, existing_signal_ids, action) ==
    CASE action = "add"           -> _add_new_signal(t, new_signal)
      [] action = "replace"       -> _add_new_signal(CloseExisting(t, new_signal.symbol, 1),
                                                     new_signal)
      [] action = "reinforce"     -> _reinforce_signal(t, existing_signal_ids[1], new_signal)
      [] action = "conflict"      -> _mark_conflict(t, existing_signal_ids[1],
                                                    new_signal.signal_id)
      [] action = "keep_existing" -> t

\* The action add_signal resolves to ("first" when the symbol had no signal)
ResolveAction(t, signal) ==
    LET existing_signals == IdsOf(t.symbol_signals, signal.symbol)
    IN  IF existing_signals # <<>>
        THEN _evaluate_multiple_signals(t, signal, existing_signals)
        ELSE "first"

\* SignalTracker.add_signal
add_signal(t, signal) ==
    LET existing_signals == IdsOf(t.symbol_signals, signal.symbol)
    IN  IF existing_signals # <<>>
        THEN _handle_multiple_signals(t, signal, existing_signals,
                                      _evaluate_multiple_signals(t, signal, existing_signals))
        ELSE _add_new_signal(t, signal)

----------------------------------------------------------------------------
(* SignalTracker: price updates *)

timeout_hours == 24

\* SignalTracker._check_tp_hit
_check_tp_hit(current_price, target_price, buy) ==
    IF buy THEN current_price >= target_price ELSE current_price <= target_price

\* SignalTracker._check_sl_hit
_check_sl_hit(current_price, stop_loss, buy) ==
    IF buy THEN current_price <= stop_loss ELSE current_price >= stop_loss

\* SignalTracker._check_signal_timeout: total_seconds() > timeout_hours * 3600
_check_signal_timeout(signal, utcnow) ==
    (utcnow - signal.timestamp) * 3600 > timeout_hours * 3600

NoResult == [event |-> "None"]

\* One branch of _check_signal_hits: set the flag on the tracked object, tell
\* storage, return the TrackingResult
SetHit(t, signal, flag, event, current_price, target_price) ==
    LET hit == [signal EXCEPT ![flag] = TRUE]
        t1  == [t EXCEPT !.active_signals = DictSet(@, hit)]
        r   == update_signal_hits(t1, signal.signal_id,
                   (flag :> TRUE) @@ [current_price |-> current_price])
    IN  [t |-> r.t,
         result |-> IF r.raised THEN NoResult
                    ELSE TrackingResult(signal, event, current_price, target_price)]

\* A check that tests the take-profit levels from the farthest to the nearest
_check_signal_hits_farthest_first(t, signal, current_price, utcnow) ==
    IF signal.entry_price = 0
    THEN [t |-> t, result |-> NoResult]
    ELSE IF ~signal.tp3_hit /\ _check_tp_hit(current_price, signal.tp3, is_buy(signal))
    THEN SetHit(t, signal, "tp3_hit", "TP3_HIT", current_price, signal.tp3)
    ELSE IF ~signal.tp2_hit /\ _check_tp_hit(current_price, signal.tp2, is_buy(signal))
    THEN SetHit(t, signal, "tp2_hit", "TP2_HIT", current_price, signal.tp2)
    ELSE IF ~signal.tp1_hit /\ _check_tp_hit(current_price, signal.tp1, is_buy(signal))
    THEN SetHit(t, signal, "tp1_hit", "TP1_HIT", current_price, signal.tp1)
    ELSE IF ~signal.stop_loss_hit
            /\ _check_sl_hit(current_price, signal.stop_loss, is_buy(signal))
    THEN SetHit(t, signal, "stop_loss_hit", "STOP_LOSS_HIT", current_price, signal.stop_loss)
    ELSE IF _check_signal_timeout(signal, utcnow)
    THEN [t |-> t,
          result |-> TrackingResult(signal, "SIGNAL_CLOSED", current_price, current_price)]
    ELSE [t |-> t, result |-> NoResult]

\* SignalTracker._check_signal_hits: the first branch of the if/elif chain that applies
_check_signal_hits(t, signal, current_price, utcnow) ==
    IF signal.entry_price = 0
    THEN [t |-> t, result |-> NoResult]          \* ZeroDivisionError: caught, None
    ELSE IF ~signal.tp1_hit /\ _check_tp_hit(current_price, signal.tp1, is_buy(signal))
    THEN SetHit(t, signal, "tp1_hit", "TP1_HIT", current_price, signal.tp1)
    ELSE IF ~signal.tp2_hit /\ _check_tp_hit(current_price, signal.tp2, is_buy(signal))
    THEN SetHit(t, signal, "tp2_hit", "TP2_HIT", current_price, signal.tp2)
    ELSE IF ~signal.tp3_hit /\ _check_tp_hit(current_price, signal.tp3, is_buy(signal))
    THEN SetHit(t, signal, "tp3_hit", "TP3_HIT", current_price, signal.tp3)
    ELSE IF ~signal.stop_loss_hit
            /\ _check_sl_hit(current_price, signal.stop_loss, is_buy(signal))
    THEN SetHit(t, signal, "stop_loss_hit", "STOP_LOSS_HIT", current_price, signal.stop_loss)
    ELSE IF _check_signal_timeout(signal, utcnow)
    THEN [t |-> t,
          result |-> TrackingResult(signal, "SIGNAL_CLOSED", current_price, current_price)]
    ELSE [t |-> t, result |-> NoResult]

ClosingEvents == {"TP3_HIT", "STOP_LOSS_HIT", "SIGNAL_CLOSED"}

\* TrackingEvent: the value of each member
EventValue(event) ==
    CASE event = "TP1_HIT"       -> "tp1_hit"
      [] event = "TP2_HIT"       -> "tp2_hit"
      [] event = "TP3_HIT"       -> "tp3_hit"
      [] event = "STOP_LOSS_HIT" -> "stop_loss_hit"
      [] event = "SIGNAL_CLOSED" -> "signal_closed"

\* str.upper() on the event values
Upper(value) ==
    CASE value = "tp1_hit"       -> "TP1_HIT"
      [] value = "tp2_hit"       -> "TP2_HIT"
      [] value = "tp3_hit"       -> "TP3_HIT"
      [] value = "stop_loss_hit" -> "STOP_LOSS_HIT"
      [] value = "signal_closed" -> "SIGNAL_CLOSED"

\* hit_result.event.value.upper(): the reason handed to _close_signal
CloseReason(event) == Upper(EventValue(event))

\* A loop body that reports the hit and leaves the signal where it is
UpdateOneKeeping(t, signal, market_data, utcnow) ==
    IF signal.symbol \notin DOMAIN market_data
    THEN [t |-> t, result |-> NoResult]
    ELSE
        LET current_price == market_data[signal.symbol]
            u == update_signal_hits(t, signal.signal_id, [current_price |-> current_price])
        IN  _check_signal_hits(u.t, signal, current_price, utcnow)

\* The body of the loop of update_prices for one signal
UpdateOne(t, signal, market_data, utcnow) ==
    IF signal.symbol \notin DOMAIN market_data
    THEN [t |-> t, result |-> NoResult]
    ELSE
        LET current_price == market_data[signal.symbol]
            u == update_signal_hits(t, signal.signal_id, [current_price |-> current_price])
            c == _check_signal_hits(u.t, signal, current_price, utcnow)
        IN  IF c.result.event = "None" THEN c
            ELSE IF c.result.event \in ClosingEvents
            THEN [t |-> _close_signal(c.t, signal.signal_id, CloseReason(c.result.event)),
                  result |-> c.result]
            ELSE c

\* for signal_id, signal in self.active_signals.items(): the dict iterator raises
\* RuntimeError (dictionary changed size during iteration) on the step after a
\* deletion; update_prices catches it, logs it and returns the results so far
RECURSIVE UpdateLoop(_, _, _, _, _)
UpdateLoop(t, res, i, market_data, utcnow) ==
    IF i > Len(t.active_signals) THEN [t |-> t, results |-> res]
    ELSE
        LET size == Len(t.active_signals)
            step == UpdateOne(t, t.active_signals[i], market_data, utcnow)
            res1 == IF step.result.event = "None" THEN res ELSE Append(res, step.result)
        IN  IF Len(step.t.active_signals) # size
            THEN [t |-> step.t, results |-> res1]
            ELSE UpdateLoop(step.t, res1, i + 1, market_data, utcnow)

\* SignalTracker.update_prices (tracking_enabled is never cleared)
update_prices(t, market_data, utcnow) == UpdateLoop(t, <<>>, 1, market_data, utcnow)

\* SignalTracker.close_signal_manually
close_signal_manually(t, signal_id, reason) ==
    IF signal_id \in ActiveIds(t.active_signals)
    THEN _close_signal(t, signal_id, reason)
    ELSE t

\* signals_to_close of cleanup_old_signals: signal.timestamp < cutoff_time
RECURSIVE SignalsToClose(_, _)
SignalsToClose(active, cutoff_time) ==
    IF active = <<>> THEN <<>>
    ELSE (IF Head(active).timestamp < cutoff_time THEN <<Head(active).signal_id>> ELSE <<>>)
         \o SignalsToClose(Tail(active), cutoff_time)

RECURSIVE CloseAll(_, _, _)
CloseAll(t, ids, reason) ==
    IF ids = <<>> THEN t
    ELSE CloseAll(_close_signal(t, Head(ids), reason), Tail(ids), reason)

\* SignalTracker.cleanup_old_signals
cleanup_old_signals(t, max_age_hours, utcnow) ==
    CloseAll(t, SignalsToClose(t.active_signals, utcnow - max_age_hours), "EXPIRED")

----------------------------------------------------------------------------
(* The tracker as a state machine: one action per public operation *)

EmptyMap == [s \in {} |-> 0]

\* The tracker at the start of an operation
Tracker ==
    [active_signals |-> active_signals, symbol_signals |-> symbol_signals,
     db_calls |-> <<>>, observed |-> {}, storage_up |-> TRUE]

\* The tracker at the start of an operation during which storage works or fails
TrackerWith(storage_up) == [Tracker EXCEPT !.storage_up = storage_up]

\* A price map as the analysis cycle builds it: a price for some of the symbols
MarketData == UNION {[S -> Prices] : S \in SUBSET Symbols}

LastOp(op, signal_id, action, market_data) ==
    [op |-> op, signal_id |-> signal_id, action |-> action, market_data |-> market_data]

\* The average a reinforcement computes is a whole percent (confidence is kept in
\* whole percents here; the code averages floats)
WholeAverage(signal) ==
    ResolveAction(Tracker, signal) = "reinforce" =>
        (GetSignal(active_signals, symbol_signals[signal.symbol][1]).confidence
            + signal.confidence) % 2 = 0

AddSignal ==
    \E symbol \in Symbols, direction \in Directions, confidence \in Confidences :
        LET signal == NewSignal(symbol, direction, confidence, now)
            t == add_signal(Tracker, signal)
        IN  /\ WholeAverage(signal)
            /\ active_signals' = t.active_signals
            /\ symbol_signals' = t.symbol_signals
            /\ db_calls' = t.db_calls
            /\ observed' = t.observed
            /\ results' = <<>>
            /\ last_op' = LastOp("add_signal", signal.signal_id,
                                 ResolveAction(Tracker, signal), EmptyMap)
            /\ UNCHANGED <<now, collector_vars, generator_vars, storage_vars, function_vars>>

UpdatePrices ==
    \E market_data \in MarketData :
        LET r == update_prices(Tracker, market_data, now)
        IN  /\ active_signals' = r.t.active_signals
            /\ symbol_signals' = r.t.symbol_signals
            /\ db_calls' = r.t.db_calls
            /\ observed' = r.t.observed
            /\ results' = r.results
            /\ last_op' = LastOp("update_prices", <<>>, "", market_data)
            /\ UNCHANGED <<now, collector_vars, generator_vars, storage_vars, function_vars>>

CloseSignalManually ==
    \E i \in DOMAIN active_signals :
        LET signal_id == active_signals[i].signal_id
            t == close_signal_manually(Tracker, signal_id, "MANUALLY_CLOSED")
        IN  /\ active_signals' = t.active_signals
            /\ symbol_signals' = t.symbol_signals
            /\ db_calls' = t.db_calls
            /\ observed' = t.observed
            /\ results' = <<>>
            /\ last_op' = LastOp("close_signal_manually", signal_id, "", EmptyMap)
            /\ UNCHANGED <<now, collector_vars, generator_vars, storage_vars, function_vars>>

CleanupOldSignals ==
    LET t == cleanup_old_signals(Tracker, 24, now)
    IN  /\ active_signals' = t.active_signals
        /\ symbol_signals' = t.symbol_signals
        /\ db_calls' = t.db_calls
        /\ observed' = t.observed
        /\ results' = <<>>
        /\ last_op' = LastOp("cleanup_old_signals", <<>>, "", EmptyMap)
        /\ UNCHANGED <<now, collector_vars, generator_vars, storage_vars, function_vars>>

\* Time passes between operations, in steps of just over the timeout
TickHours == timeout_hours + 1

Tick ==
    /\ now + TickHours <= MaxTicks * TickHours
    /\ now' = now + TickHours
    /\ UNCHANGED <<active_signals, symbol_signals, results, db_calls, observed, last_op,
                   collector_vars, generator_vars, storage_vars, function_vars>>

TrackerInit ==
    /\ now = 0
    /\ active_signals = <<>>
    /\ symbol_signals = EmptyMap
    /\ results = <<>>
    /\ db_calls = <<>>
    /\ observed = {}
    /\ last_op = LastOp("init", <<>>, "", EmptyMap)

----------------------------------------------------------------------------
(* MultiSourceCollector.  The adapters are duck-typed: a call on one gives *)
(* data, gives nothing ({} or None) or raises.  success_count, last_error  *)
(* and source_stats are not modelled: no decision of the collector reads   *)
(* them.                                                                   *)

\* MultiSourceCollector._initialize_sources: the sources in preference order, cut to
\* the first three of binance, coincap, cryptocompare, coingecko
SourceNames == <<"binance", "coincap", "cryptocompare">>
NumSources == Len(SourceNames)
SourceIds == 1..NumSources

\* if source_info['error_count'] > 10
ErrorThreshold == 10

Outcomes == {"data", "empty", "raise"}
ProbeOutcomes == {"ok", "fail", "raise"}

NoData == [kind |-> "empty", source |-> 0]
DataFrom(i) == [kind |-> "data", source |-> i]
Raised == [kind |-> "raised", source |-> 0]

\* The bool that initialize and test_connection return
Answer(b) == [kind |-> IF b THEN "true" ELSE "false", source |-> 0]

\* The collector at the start of an operation
Collector ==
    [sources |-> sources, current_source_index |-> current_source_index,
     is_initialized |-> is_initialized, calls |-> <<>>]

\* A call on adapter i: what was called, and the adapter's flags at that moment
Invoke(c, i, method, outcome) ==
    [c EXCEPT !.calls = Append(@, [source |-> i, method |-> method, outcome |-> outcome,
                                   enabled |-> c.sources[i].enabled,
                                   is_initialized |-> c.sources[i].is_initialized])]

\* MultiSourceCollector._try_current_source
_try_current_source(c) ==
    IF c.sources = <<>> \/ c.current_source_index > Len(c.sources) THEN FALSE
    ELSE LET current_source == c.sources[c.current_source_index]
         IN  IF ~current_source.enabled THEN FALSE
             ELSE current_source.is_initialized /\ current_source.connection_status

\* MultiSourceCollector._record_success: only counters, none of them modelled
_record_success(c, source_index) == c

\* An error record that counts and never disables
_record_error_counting(c, source_index) ==
    IF source_index > Len(c.sources) THEN c
    ELSE [c EXCEPT !.sources[source_index].error_count = @ + 1]

\* MultiSourceCollector._record_error
_record_error(c, source_index) ==
    IF source_index > Len(c.sources) THEN c
    ELSE LET counted == c.sources[source_index].error_count + 1
         IN  [c EXCEPT !.sources[source_index].error_count = counted,
                       !.sources[source_index].enabled =
                            IF counted > ErrorThreshold THEN FALSE ELSE @]

\* A walk over the other sources that does not look at enabled
RECURSIVE SymbolDataLoopAll(_, _, _)
SymbolDataLoopAll(c, i, outcome) ==
    IF i > Len(c.sources) THEN [c |-> c, result |-> NoData]
    ELSE IF i = c.current_source_index THEN SymbolDataLoopAll(c, i + 1, outcome)
    ELSE
        LET called == Invoke(c, i, "get_symbol_data", outcome[i])
        IN  CASE outcome[i] = "data" ->
                    [c |-> _record_success([called EXCEPT !.current_source_index = i], i),
                     result |-> DataFrom(i)]
              [] outcome[i] = "empty" -> SymbolDataLoopAll(called, i + 1, outcome)
              [] outcome[i] = "raise" ->
                    SymbolDataLoopAll(_record_error(called, i), i + 1, outcome)

\* "Try other sources" of get_symbol_data, from source i on
RECURSIVE SymbolDataLoop(_, _, _)
SymbolDataLoop(c, i, outcome) ==
    IF i > Len(c.sources) THEN [c |-> c, result |-> NoData]
    ELSE IF ~c.sources[i].enabled \/ i = c.current_source_index
    THEN SymbolDataLoop(c, i + 1, outcome)
    ELSE
        LET called == Invoke(c, i, "get_symbol_data", outcome[i])
        IN  CASE outcome[i] = "data" ->
                    [c |-> _record_success([called EXCEPT !.current_source_index = i], i),
                     result |-> DataFrom(i)]
              [] outcome[i] = "empty" -> SymbolDataLoop(called, i + 1, outcome)
              [] outcome[i] = "raise" ->
                    SymbolDataLoop(_record_error(called, i), i + 1, outcome)

\* A get_symbol_data without the outer except: what the current adapter raises
\* reaches the caller
get_symbol_data_raising(c, outcome) ==
    IF _try_current_source(c)
    THEN LET i == c.current_source_index
             called == Invoke(c, i, "get_symbol_data", outcome[i])
         IN  CASE outcome[i] = "data" ->
                    [c |-> _record_success(called, i), result |-> DataFrom(i)]
               [] outcome[i] = "empty" -> SymbolDataLoop(called, 1, outcome)
               [] outcome[i] = "raise" -> [c |-> called, result |-> Raised]
    ELSE SymbolDataLoop(c, 1, outcome)

\* MultiSourceCollector.get_symbol_data; outcome[i] is what adapter i does when called
get_symbol_data(c, outcome) ==
    IF _try_current_source(c)
    THEN LET i == c.current_source_index
             called == Invoke(c, i, "get_symbol_data", outcome[i])
         IN  CASE outcome[i] = "data" ->
                    [c |-> _record_success(called, i), result |-> DataFrom(i)]
               [] outcome[i] = "empty" -> SymbolDataLoop(called, 1, outcome)
               [] outcome[i] = "raise" ->
                    [c |-> called, result |-> NoData]   \* the outer except: return {}
    ELSE SymbolDataLoop(c, 1, outcome)

\* "Try other sources" of get_historical_data, from source i on
RECURSIVE HistoricalLoop(_, _, _)
HistoricalLoop(c, i, outcome) ==
    IF i > Len(c.sources) THEN [c |-> c, result |-> NoData]
    ELSE IF ~c.sources[i].enabled \/ i = c.current_source_index
    THEN HistoricalLoop(c, i + 1, outcome)
    ELSE
        LET called == Invoke(c, i, "get_historical_data", outcome[i])
        IN  CASE outcome[i] = "data" -> [c |-> called, result |-> DataFrom(i)]
              [] outcome[i] = "empty" -> HistoricalLoop(called, i + 1, outcome)
              [] outcome[i] = "raise" ->
                    HistoricalLoop(_record_error(called, i), i + 1, outcome)

\* MultiSourceCollector.get_historical_data
get_historical_data(c, outcome) ==
    IF _try_current_source(c)
    THEN LET i == c.current_source_index
             called == Invoke(c, i, "get_historical_data", outcome[i])
         IN  CASE outcome[i] = "data" -> [c |-> called, result |-> DataFrom(i)]
               [] outcome[i] = "empty" -> HistoricalLoop(called, 1, outcome)
               [] outcome[i] = "raise" -> [c |-> called, result |-> NoData]
    ELSE HistoricalLoop(c, 1, outcome)

\* An adapter's test_connection: a probe that answers sets connection_status
Probe(c, i, outcome) ==
    LET called == Invoke(c, i, "test_connection", outcome)
    IN  IF outcome = "ok"
        THEN [called EXCEPT !.sources[i].connection_status = TRUE]
        ELSE called

\* MultiSourceCollector._try_next_source, from source i on
RECURSIVE TryNextLoop(_, _, _)
TryNextLoop(c, i, outcome) ==
    IF i > Len(c.sources) THEN [c |-> c, result |-> FALSE]
    ELSE IF ~c.sources[i].enabled THEN TryNextLoop(c, i + 1, outcome)
    ELSE
        LET probed == Probe(c, i, outcome[i])
        IN  CASE outcome[i] = "ok" ->
                    [c |-> [probed EXCEPT !.current_source_index = i], result |-> TRUE]
              [] outcome[i] = "fail" -> TryNextLoop(probed, i + 1, outcome)
              [] outcome[i] = "raise" -> [c |-> probed, result |-> FALSE]

_try_next_source(c, outcome) == TryNextLoop(c, 1, outcome)

\* MultiSourceCollector.test_connection; first is what the current adapter answers,
\* next[i] what adapter i answers when _try_next_source probes it
test_connection(c, first, next) ==
    IF c.sources = <<>> \/ c.current_source_index > Len(c.sources)
    THEN [c |-> c, result |-> FALSE]
    ELSE IF ~c.sources[c.current_source_index].enabled
    THEN _try_next_source(c, next)
    ELSE
        LET probed == Probe(c, c.current_source_index, first)
        IN  IF first = "ok" THEN [c |-> probed, result |-> TRUE]
            ELSE _try_next_source(probed, next)

\* MultiSourceCollector.initialize, from source i on; an adapter whose initialize
\* succeeds has set its own is_initialized and connection_status
RECURSIVE InitializeLoop(_, _, _)
InitializeLoop(c, i, outcome) ==
    IF i > Len(c.sources) THEN [c |-> c, result |-> FALSE]
    ELSE IF ~c.sources[i].enabled THEN InitializeLoop(c, i + 1, outcome)
    ELSE
        LET called == Invoke(c, i, "initialize", outcome[i])
        IN  IF outcome[i] = "ok"
            THEN [c |-> [called EXCEPT !.sources[i].is_initialized = TRUE,
                                       !.sources[i].connection_status = TRUE,
                                       !.current_source_index = i,
                                       !.is_initialized = TRUE],
                  result |-> TRUE]
            ELSE InitializeLoop([called EXCEPT !.sources[i].enabled = FALSE],
                                i + 1, outcome)

initialize(c, outcome) == InitializeLoop(c, 1, outcome)

----------------------------------------------------------------------------
(* PulseEngine._run_analysis_cycle, step 1: collect market data for all symbols *)

\* settings.SYMBOLS, cut to the symbols of the model
EngineSymbols == <<"BTC-USD", "ETH-USD">>

NoCycle == [fetched |-> EmptyMap, market_data |-> {}, outcome |-> "none"]

\* One turn of "for symbol in self.settings.SYMBOLS": data = await
\* get_symbol_data(symbol); the symbol enters market_data only when data is truthy,
\* an exception is logged and the loop goes on.  After the last symbol an empty
\* market_data ends the cycle ("skipping analysis").
CollectSymbol(c, cy, outcome) ==
    LET started == IF cy.outcome = "collecting" THEN cy ELSE NoCycle
        symbol  == EngineSymbols[Cardinality(DOMAIN started.fetched) + 1]
        r  == get_symbol_data(c, outcome)
        md == IF r.result.kind = "data" THEN started.market_data \cup {symbol}
              ELSE started.market_data
        fetched == started.fetched @@ (symbol :> r.result.kind)
    IN  [c |-> r.c,
         result |-> r.result,
         cycle |-> [fetched |-> fetched, market_data |-> md,
                    outcome |-> IF Cardinality(DOMAIN fetched) < Len(EngineSymbols)
                                THEN "collecting"
                                ELSE IF md = {} THEN "skipped" ELSE "analysed"]]

----------------------------------------------------------------------------
(* The collector as a state machine *)

LookupRecord(op, calls, result) == [op |-> op, calls |-> calls, result |-> result]

\* The adapters that are part-way to the error threshold
MidCount == {i \in SourceIds : sources[i].error_count > 0
                               /\ sources[i].error_count <= ErrorThreshold}

Raising(outcome) == {i \in SourceIds : outcome[i] = "raise"}

\* Adapters break down one at a time: while one is raising, or part-way to the
\* threshold, no other one raises
Flaky(raising) == \A i, j \in raising \cup MidCount : i = j

Initialize ==
    /\ lookup.op = "constructed"
    /\ \E outcome \in [SourceIds -> ProbeOutcomes] :
        LET r == initialize(Collector, outcome)
        IN  /\ sources' = r.c.sources
            /\ current_source_index' = r.c.current_source_index
            /\ is_initialized' = r.c.is_initialized
            /\ lookup' = LookupRecord("initialize", r.c.calls,
                                      Answer(r.result))
            /\ UNCHANGED <<cycle, tracker_vars, generator_vars,
                         storage_vars, function_vars>>

TestConnection ==
    /\ is_initialized
    /\ cycle.outcome # "collecting"
    /\ \E first \in ProbeOutcomes, next \in [SourceIds -> ProbeOutcomes] :
        LET r == test_connection(Collector, first, next)
        IN  /\ sources' = r.c.sources
            /\ current_source_index' = r.c.current_source_index
            /\ lookup' = LookupRecord("test_connection", r.c.calls,
                                      Answer(r.result))
            /\ UNCHANGED <<is_initialized, cycle, tracker_vars, generator_vars,
                         storage_vars, function_vars>>

GetSymbolData ==
    /\ is_initialized
    /\ cycle.outcome # "collecting"
    /\ \E outcome \in [SourceIds -> Outcomes] :
        LET r == get_symbol_data(Collector, outcome)
        IN  /\ Flaky(Raising(outcome))
            /\ sources' = r.c.sources
            /\ current_source_index' = r.c.current_source_index
            /\ lookup' = LookupRecord("get_symbol_data", r.c.calls, r.result)
            /\ UNCHANGED <<is_initialized, cycle, tracker_vars, generator_vars,
                         storage_vars, function_vars>>

GetHistoricalData ==
    /\ is_initialized
    /\ cycle.outcome # "collecting"
    /\ \E outcome \in [SourceIds -> Outcomes] :
        LET r == get_historical_data(Collector, outcome)
        IN  /\ Flaky(Raising(outcome))
            /\ sources' = r.c.sources
            /\ current_source_index' = r.c.current_source_index
            /\ lookup' = LookupRecord("get_historical_data", r.c.calls, r.result)
            /\ UNCHANGED <<is_initialized, cycle, tracker_vars, generator_vars,
                         storage_vars, function_vars>>

RunAnalysisCycle ==
    /\ is_initialized
    /\ \E outcome \in [SourceIds -> Outcomes] :
        LET r == CollectSymbol(Collector, cycle, outcome)
        IN  /\ Flaky(Raising(outcome))
            /\ sources' = r.c.sources
            /\ current_source_index' = r.c.current_source_index
            /\ lookup' = LookupRecord("run_analysis_cycle", r.c.calls, r.result)
            /\ cycle' = r.cycle
            /\ UNCHANGED <<is_initialized, tracker_vars, generator_vars,
                         storage_vars, function_vars>>

CollectorInit ==
    /\ sources = [i \in SourceIds |->
                    [name |-> SourceNames[i], enabled |-> TRUE, error_count |-> 0,
                     is_initialized |-> FALSE, connection_status |-> FALSE]]
    /\ current_source_index = 1
    /\ is_initialized = FALSE
    /\ lookup = LookupRecord("constructed", <<>>, NoData)
    /\ cycle = NoCycle

----------------------------------------------------------------------------
(* SignalGenerator (src/signals/signal_generator.py).                      *)
(*                                                                         *)
(* Units: a snapshot price is a whole number; the levels of a generated    *)
(* signal, and its entry price, are in 1/100000 of that unit, so that      *)
(* price * (1 + pct / 100) is exact with pct in 1/1000 percent.            *)
(* Multipliers are in tenths, MIN_CONFIDENCE in hundredths (65 is 0.65),   *)
(* RISK_REWARD_MIN in tenths (25 is 2.5), confidence in whole percent.     *)
(* A risk/reward ratio is the pair of its numerator and denominator.       *)

\* What an analysis cycle hands to the generator for one symbol: the snapshot
\* price and volume, and the composite of the symbol's indicators
Candidate(symbol, price, volume, indicators, bias, score, contributing) ==
    [symbol |-> symbol, price |-> price, volume |-> volume, indicators |-> indicators,
     overall_bias |-> bias, overall_score |-> score,
     contributing_indicators |-> contributing, total_indicators |-> 5]

MarketContext(overall_trend, volatility, trend_strength) ==
    [overall_trend |-> overall_trend, volatility |-> volatility,
     trend_strength |-> trend_strength]

\* volatility_multiplier of _calculate_dynamic_levels, in tenths
volatility_multiplier(volatility) ==
    CASE volatility = "LOW"     -> 7
      [] volatility = "MEDIUM"  -> 10
      [] volatility = "HIGH"    -> 15
      [] volatility = "EXTREME" -> 20
      [] OTHER                  -> 10

\* trend_multiplier of _calculate_dynamic_levels, in tenths
trend_multiplier(trend_strength) ==
    CASE trend_strength = "WEAK"   -> 8
      [] trend_strength = "MEDIUM" -> 10
      [] trend_strength = "STRONG" -> 13
      [] OTHER                     -> 10

\* The percentages of the safe default levels in place of the base ones
base_tp_percentages_default == <<20, 40, 60>>

\* base_tp_percentages = [1.5, 3.0, 5.0], in tenths of a percent
base_tp_percentages == <<15, 30, 50>>

\* The "safe default levels" of the except branch: 2%, 4%, 6% and 1%
DefaultLevels(entry_price, direction) ==
    IF direction = "BUY"
    THEN [tp1 |-> entry_price * 102000, tp2 |-> entry_price * 104000,
          tp3 |-> entry_price * 106000, stop_loss |-> entry_price * 99000]
    ELSE [tp1 |-> entry_price * 98000, tp2 |-> entry_price * 96000,
          tp3 |-> entry_price * 94000, stop_loss |-> entry_price * 101000]

\* SignalGenerator._calculate_dynamic_levels; a volatility that cannot be a
\* dict key makes the lookup raise, and the except branch answers
_calculate_dynamic_levels(entry_price, direction, market_context) ==
    IF market_context.volatility = "unhashable"
    THEN DefaultLevels(entry_price, direction)
    ELSE
        LET vm == volatility_multiplier(market_context.volatility)
            tm == trend_multiplier(market_context.trend_strength)
            adjusted_tp == [i \in 1..3 |-> base_tp_percentages[i] * vm * tm]
            adjusted_sl == 10 * vm * 8
        IN  IF direction = "BUY"
            THEN [tp1 |-> entry_price * (100000 + adjusted_tp[1]),
                  tp2 |-> entry_price * (100000 + adjusted_tp[2]),
                  tp3 |-> entry_price * (100000 + adjusted_tp[3]),
                  stop_loss |-> entry_price * (100000 - adjusted_sl)]
            ELSE [tp1 |-> entry_price * (100000 - adjusted_tp[1]),
                  tp2 |-> entry_price * (100000 - adjusted_tp[2]),
                  tp3 |-> entry_price * (100000 - adjusted_tp[3]),
                  stop_loss |-> entry_price * (100000 + adjusted_sl)]

\* A ratio as numerator over denominator
Ratio(num, den) == [num |-> num, den |-> den]

\* SignalGenerator._calculate_risk_reward
_calculate_risk_reward(entry_price, levels, direction) ==
    LET entry == entry_price * 100000
        potential_profit == IF direction = "BUY" THEN levels.tp1 - entry
                            ELSE entry - levels.tp1
        potential_loss   == IF direction = "BUY" THEN entry - levels.stop_loss
                            ELSE levels.stop_loss - entry
    IN  IF potential_loss <= 0 THEN Ratio(0, 1)
        ELSE IF potential_profit < 0 THEN Ratio(0, 1)      \* max(0.0, risk_reward)
        ELSE Ratio(potential_profit, potential_loss)

\* max(0, min(100, confidence))
Clamp(confidence) ==
    IF confidence > 100 THEN 100 ELSE IF confidence < 0 THEN 0 ELSE confidence

\* SignalGenerator._calculate_signal_confidence; a snapshot without a volume
\* (None) makes the comparison raise, and the except branch returns the base
_calculate_signal_confidence(base_confidence, market_context, candidate) ==
    LET market_trend == market_context.overall_trend
        market_volatility == market_context.volatility
        c1 == base_confidence
              + (IF market_trend \in {"STRONG_UPTREND", "STRONG_DOWNTREND"} THEN 10
                 ELSE IF market_trend \in {"UPTREND", "DOWNTREND"} THEN 5 ELSE 0)
        c2 == c1 + (IF market_volatility = "LOW" THEN 5
                    ELSE IF market_volatility = "HIGH" THEN -10 ELSE 0)
        volume_24h == candidate.volume.volume
        avg_volume == candidate.volume.avg_volume
        c3 == c2 + (IF volume_24h * 10 > avg_volume * 15 THEN 8
                    ELSE IF volume_24h * 10 < avg_volume * 5 THEN -5 ELSE 0)
        contributing_count == candidate.contributing_indicators
        total == IF candidate.total_indicators > 1 THEN candidate.total_indicators ELSE 1
        c4 == c3 + (IF contributing_count * 10 > 6 * total THEN 15
                    ELSE IF contributing_count * 10 > 4 * total THEN 8
                    ELSE IF contributing_count * 10 > 2 * total THEN 3 ELSE 0)
    IN  IF candidate.volume.missing THEN base_confidence ELSE Clamp(c4)

\* Direction rules whose score comparisons include the bounds 45, 55 and 75
SignalDirectionInclusive(overall_bias, overall_score) ==
    IF overall_bias \in {"STRONG_BULLISH", "BULLISH"} /\ overall_score >= 45
    THEN [direction |-> "BUY", base_confidence |-> overall_score]
    ELSE IF overall_bias \in {"STRONG_BEARISH", "BEARISH"} /\ overall_score <= 55
    THEN [direction |-> "SELL", base_confidence |-> 100 - overall_score]
    ELSE IF overall_bias = "NEUTRAL" /\ overall_score > 70
    THEN [direction |-> IF overall_score >= 75 THEN "BUY" ELSE "SELL",
          base_confidence |-> overall_score]
    ELSE [direction |-> "", base_confidence |-> 0]

\* The direction rules of _generate_symbol_signal: the direction ("" for none)
\* and the base confidence
SignalDirection(overall_bias, overall_score) ==
    IF overall_bias \in {"STRONG_BULLISH", "BULLISH"} /\ overall_score > 45
    THEN [direction |-> "BUY", base_confidence |-> overall_score]
    ELSE IF overall_bias \in {"STRONG_BEARISH", "BEARISH"} /\ overall_score < 55
    THEN [direction |-> "SELL", base_confidence |-> 100 - overall_score]
    ELSE IF overall_bias = "NEUTRAL" /\ overall_score > 70
    THEN [direction |-> IF overall_score > 75 THEN "BUY" ELSE "SELL",
          base_confidence |-> overall_score]
    ELSE [direction |-> "", base_confidence |-> 0]

\* Signal(...) as the generator constructs it; timestamp defaults to utcnow
Signal(symbol, direction, timestamp, current_price, levels, confidence, risk_reward) ==
    [symbol |-> symbol, direction |-> direction, timestamp |-> timestamp,
     entry_price |-> current_price * 100000, current_price |-> current_price * 100000,
     tp1 |-> levels.tp1, tp2 |-> levels.tp2, tp3 |-> levels.tp3,
     stop_loss |-> levels.stop_loss,
     confidence |-> confidence, risk_reward_ratio |-> risk_reward]

\* risk_reward < self.min_risk_reward, the minimum in tenths
RiskRewardBelow(risk_reward, min_risk_reward) ==
    risk_reward.num * 10 < min_risk_reward * risk_reward.den

\* The confidence check alone: a candidate is never refused for its risk/reward
ConfidenceBelowOnly(cfg, final_confidence, risk_reward) ==
    final_confidence * 100 < cfg.MIN_CONFIDENCE * 100

\* The two threshold checks of _generate_symbol_signal: TRUE when the
\* candidate is refused
BelowThresholds(cfg, final_confidence, risk_reward) ==
    \/ final_confidence * 100 < cfg.MIN_CONFIDENCE * 100
    \/ RiskRewardBelow(risk_reward, cfg.RISK_REWARD_MIN)

\* SignalGenerator._generate_symbol_signal: the sequence of the signals it
\* returns, none or one
_generate_symbol_signal(cfg, clock, candidate, market_context) ==
    LET current_price == candidate.price
        d == SignalDirection(candidate.overall_bias, candidate.overall_score)
        final_confidence ==
            _calculate_signal_confidence(d.base_confidence, market_context, candidate)
        levels == _calculate_dynamic_levels(current_price, d.direction, market_context)
        risk_reward == _calculate_risk_reward(current_price, levels, d.direction)
    IN  IF current_price = 0 THEN <<>>
        ELSE IF candidate.indicators # "composite" THEN <<>>
        ELSE IF d.direction = "" THEN <<>>
        ELSE IF BelowThresholds(cfg, final_confidence, risk_reward) THEN <<>>
        ELSE <<Signal(candidate.symbol, d.direction, clock, current_price, levels,
                      final_confidence, risk_reward)>>

\* The generator's tracking state at the start of a call
Generator == [recent_signals |-> recent_signals, symbol_cooldowns |-> symbol_cooldowns]

\* Signals of seq, in order, whose timestamp is after cutoff
RECURSIVE After(_, _)
After(seq, cutoff) ==
    IF seq = <<>> THEN <<>>
    ELSE (IF Head(seq).timestamp > cutoff THEN <<Head(seq)>> ELSE <<>>)
         \o After(Tail(seq), cutoff)

\* SignalGenerator._can_generate_signals; the clock is in minutes
_can_generate_signals(cfg, g, clock) ==
    LET one_hour_ago == clock - 60
        recent_count == Len(After(g.recent_signals, one_hour_ago))
    IN  recent_count < cfg.MAX_SIGNALS_PER_HOUR

cooldown_minutes == 5

\* A generator without cooldown: every symbol may always get a signal
_no_symbol_cooldown(g, symbol, clock) == TRUE

\* SignalGenerator._can_generate_signal_for_symbol
_can_generate_signal_for_symbol(g, symbol, clock) ==
    IF symbol \in DOMAIN g.symbol_cooldowns
    THEN ~((clock - g.symbol_cooldowns[symbol]) * 60 < cooldown_minutes * 60)
    ELSE TRUE

\* self.symbol_cooldowns[symbol] = datetime.utcnow()
SetCooldown(cooldowns, symbol, clock) ==
    [s \in DOMAIN cooldowns \cup {symbol} |-> IF s = symbol THEN clock ELSE cooldowns[s]]

\* SignalGenerator._update_signal_tracking
_update_signal_tracking(g, new_signals, clock) ==
    [g EXCEPT !.recent_signals = After(g.recent_signals \o new_signals, clock - 24 * 60)]

\* "for symbol, symbol_data in market_data.items()" of generate_signals, from
\* the i-th symbol on
RECURSIVE SymbolLoop(_, _, _, _, _, _, _)
SymbolLoop(cfg, g, all_signals, i, candidates, market_context, clock) ==
    IF i > Len(candidates) THEN [g |-> g, signals |-> all_signals]
    ELSE
        LET candidate == candidates[i]
            symbol == candidate.symbol
            signal == _generate_symbol_signal(cfg, clock, candidate, market_context)
        IN  IF ~_can_generate_signal_for_symbol(g, symbol, clock)
            THEN SymbolLoop(cfg, g, all_signals, i + 1, candidates, market_context, clock)
            ELSE IF candidate.indicators = "none"
            THEN SymbolLoop(cfg, g, all_signals, i + 1, candidates, market_context, clock)
            ELSE IF signal # <<>>
            THEN SymbolLoop(cfg,
                            [g EXCEPT !.symbol_cooldowns = SetCooldown(@, symbol, clock)],
                            all_signals \o signal, i + 1, candidates, market_context, clock)
            ELSE SymbolLoop(cfg, g, all_signals, i + 1, candidates, market_context, clock)

\* SignalGenerator.generate_signals
generate_signals(cfg, g, candidates, market_context, clock) ==
    IF ~_can_generate_signals(cfg, g, clock) THEN [g |-> g, signals |-> <<>>]
    ELSE
        LET r == SymbolLoop(cfg, g, <<>>, 1, candidates, market_context, clock)
        IN  [g |-> _update_signal_tracking(r.g, r.signals, clock), signals |-> r.signals]

\* The record of the generator's last call: its inputs and what it returned
Generated(op, candidates, market_context, signals) ==
    [op |-> op, candidates |-> candidates, market_context |-> market_context,
     signals |-> signals]

NoContext == MarketContext("", "", "")

\* Settings as shipped (src/backend/config/settings.py): MIN_CONFIDENCE = 0.65,
\* RISK_REWARD_MIN = 2.5, MAX_SIGNALS_PER_HOUR = 20
DefaultSettings == [MIN_CONFIDENCE |-> 65, RISK_REWARD_MIN |-> 25, MAX_SIGNALS_PER_HOUR |-> 20]

\* SignalGenerator.__init__
GeneratorInit ==
    /\ gen_clock = 0
    /\ settings = DefaultSettings
    /\ recent_signals = <<>>
    /\ symbol_cooldowns = EmptyMap
    /\ generated = Generated("none", <<>>, NoContext, <<>>)

\* DatabaseManager after initialize: the signals table is empty
StorageInit ==
    /\ signal_records = {}
    /\ saved = [op |-> "none"]

\* No function has been applied on its own
FunctionInit ==
    /\ applied = [op |-> "none"]
    /\ returned = [op |-> "none"]

Init == TrackerInit /\ CollectorInit /\ GeneratorInit /\ StorageInit /\ FunctionInit

Next == AddSignal \/ UpdatePrices \/ CloseSignalManually \/ CleanupOldSignals \/ Tick

Spec == Init /\ [][Next]_vars

CollectorNext == Initialize \/ TestConnection \/ GetSymbolData \/ GetHistoricalData

\* The collector under any sequence of its operations
CollectorSpec == Init /\ [][CollectorNext]_vars

EngineNext == Initialize \/ TestConnection \/ RunAnalysisCycle

\* The collector as the engine drives it: initialize, validate, then analysis cycles
EngineSpec == Init /\ [][EngineNext]_vars

----------------------------------------------------------------------------
(* _generate_symbol_signal applied to one candidate                        *)

\* Snapshot prices: float(market_data.get('price', 0)) of any number
SnapshotPrices == {-100, 0, 100}

\* volume and avg_volume of a snapshot; missing is a volume of None
Volume(volume, avg_volume, missing) ==
    [volume |-> volume, avg_volume |-> avg_volume, missing |-> missing]

Volumes == {Volume(100, 100, FALSE), Volume(200, 100, FALSE), Volume(40, 100, FALSE),
            Volume(0, 0, TRUE)}

Biases == {"STRONG_BULLISH", "BULLISH", "NEUTRAL", "BEARISH", "STRONG_BEARISH"}

Scores == {40, 50, 72, 80, 95}

Contributing == {0, 3, 4}

Trends == {"STRONG_UPTREND", "UPTREND", "SIDEWAYS"}

Volatilities == {"LOW", "MEDIUM", "HIGH", "EXTREME", "unhashable"}

TrendStrengths == {"WEAK", "MEDIUM", "STRONG"}

Candidates(symbol) ==
    {Candidate(symbol, price, volume, "composite", bias, score, contributing) :
        price \in SnapshotPrices, volume \in Volumes, bias \in Biases,
        score \in Scores, contributing \in Contributing}
    \cup {Candidate(symbol, price, Volume(100, 100, FALSE), "none", "NEUTRAL", 50, 0) :
            price \in SnapshotPrices}

MarketContexts ==
    {MarketContext(trend, volatility, trend_strength) :
        trend \in Trends, volatility \in Volatilities, trend_strength \in TrendStrengths}

\* Values the environment can configure; Settings takes any number
ConfiguredSettings ==
    {[MIN_CONFIDENCE |-> c, RISK_REWARD_MIN |-> r, MAX_SIGNALS_PER_HOUR |-> 20] :
        c \in {0, 65}, r \in {0, 20, 25}}

SymbolSignalInit ==
    /\ TrackerInit
    /\ CollectorInit
    /\ StorageInit
    /\ FunctionInit
    /\ gen_clock = 0
    /\ recent_signals = <<>>
    /\ symbol_cooldowns = EmptyMap
    /\ settings \in ConfiguredSettings
    /\ \E candidate \in Candidates("BTC-USD"), market_context \in MarketContexts :
        generated = Generated("input", <<candidate>>, market_context, <<>>)

GenerateSymbolSignal ==
    /\ generated.op = "input"
    /\ generated' = Generated("_generate_symbol_signal", generated.candidates,
                              generated.market_context,
                              _generate_symbol_signal(settings, gen_clock,
                                                      generated.candidates[1],
                                                      generated.market_context))
    /\ UNCHANGED <<tracker_vars, collector_vars, storage_vars, function_vars,
                   gen_clock, settings, recent_signals,
                   symbol_cooldowns>>

SymbolSignalSpec == SymbolSignalInit /\ [][GenerateSymbolSignal]_vars


----------------------------------------------------------------------------
(* Properties of the tracker, checked under Spec *)

\* The ids listed in the symbol index
IndexedIds(index) ==
    UNION {{index[s][k] : k \in DOMAIN index[s]} : s \in DOMAIN index}

\* Both indexes name the same signals, each under its own symbol
Consistent(snap) ==
    /\ snap.active = IndexedIds(snap.index)
    /\ \A s \in DOMAIN snap.index : \A k \in DOMAIN snap.index[s] :
            snap.index[s][k][1] = s

\* The step just taken is an update_prices call
UpdateStep == last_op'.op = "update_prices" /\ now' = now

\* C1: after any sequence of tracker operations no symbol lists more than one
\* signal id and no symbol has more than one signal in active_signals; an
\* add_signal for a symbol that already had a signal is resolved as replace,
\* reinforce, conflict or keep_existing, never as a plain add.
C1_OneSignalPerSymbol ==
    /\ \A s \in DOMAIN symbol_signals : Len(symbol_signals[s]) <= 1
    /\ \A i, j \in DOMAIN active_signals :
            active_signals[i].symbol = active_signals[j].symbol => i = j
    /\ last_op.op = "add_signal" =>
            last_op.action \in {"first", "replace", "reinforce", "conflict", "keep_existing"}

\* C1 witness: a second signal for a symbol has replaced the first, and the
\* symbol lists exactly the new one
C1_Witness ==
    /\ last_op.op = "add_signal"
    /\ last_op.action = "replace"
    /\ symbol_signals[last_op.signal_id[1]] = <<last_op.signal_id>>

\* C2: between operations and at every await inside an operation, a signal id is
\* in active_signals exactly when it is listed in symbol_signals under its own
\* symbol.
C2_IndexesAgree ==
    /\ Consistent(Snapshot(Tracker))
    /\ \A snap \in observed : Consistent(snap)

\* C2 witness: an update_prices call has closed a signal, and the tracker was
\* observable at an await after the removal
C2_Witness ==
    /\ last_op.op = "update_prices"
    /\ \E k \in DOMAIN db_calls :
            /\ db_calls[k].call = "mark_signal_closed"
            /\ \E snap \in observed : db_calls[k].signal_id \notin snap.active
    /\ \E snap \in observed : snap.active # {}

\* C3: a hit flag of a tracked signal that is true before a step is true after
\* it, for every signal tracked before and after the step (a replacement puts a
\* new signal in the place of the closed one; the new one is not compared with
\* the one it replaced).
C3_FlagsMonotonic ==
    [][\A i \in DOMAIN active_signals : \A j \in DOMAIN active_signals' :
            (/\ active_signals[i].signal_id = active_signals'[j].signal_id
             /\ ~(/\ last_op'.op = "add_signal"
                  /\ last_op'.action = "replace"
                  /\ last_op'.signal_id = active_signals[i].signal_id))
            => /\ active_signals[i].tp1_hit => active_signals'[j].tp1_hit
               /\ active_signals[i].tp2_hit => active_signals'[j].tp2_hit
               /\ active_signals[i].tp3_hit => active_signals'[j].tp3_hit
               /\ active_signals[i].stop_loss_hit => active_signals'[j].stop_loss_hit]_vars

\* C3 witness: a signal whose tp1 and tp2 were hit has just been reinforced and
\* still carries both flags
C3_Witness ==
    /\ last_op.op = "add_signal"
    /\ last_op.action = "reinforce"
    /\ \E i \in DOMAIN active_signals :
            /\ active_signals[i].symbol = last_op.signal_id[1]
            /\ active_signals[i].tp1_hit
            /\ active_signals[i].tp2_hit

\* C4, as stated: one update_prices call gives at most one event per signal, and
\* every fresh signal whose price in the call reaches tp1 but not tp2 gets
\* exactly one TP1_HIT event, has tp1_hit set, tp2_hit clear, and stays active.
C4_OneTransitionPerCall ==
    [][UpdateStep =>
        /\ \A a, b \in DOMAIN results' :
                results'[a].signal_id = results'[b].signal_id => a = b
        /\ \A i \in DOMAIN active_signals :
            LET signal == active_signals[i]
                md == last_op'.market_data
            IN  (/\ ~signal.tp1_hit /\ ~signal.tp2_hit
                 /\ ~signal.tp3_hit /\ ~signal.stop_loss_hit
                 /\ signal.symbol \in DOMAIN md
                 /\ _check_tp_hit(md[signal.symbol], signal.tp1, is_buy(signal))
                 /\ ~_check_tp_hit(md[signal.symbol], signal.tp2, is_buy(signal)))
                => /\ \E k \in DOMAIN results' :
                        /\ results'[k].signal_id = signal.signal_id
                        /\ results'[k].event = "TP1_HIT"
                   /\ \E j \in DOMAIN active_signals' :
                        /\ active_signals'[j].signal_id = signal.signal_id
                        /\ active_signals'[j].tp1_hit
                        /\ ~active_signals'[j].tp2_hit]_vars

\* C5: after an update_prices call, every signal the call reported a TP3 or
\* stop-loss hit for is in neither index and storage was asked to mark it closed
\* with that hit as the reason; no active signal ever has tp3_hit or
\* stop_loss_hit set.
C5_ClosedOnFinalHit ==
    /\ last_op.op = "update_prices" =>
            \A k \in DOMAIN results :
                results[k].event \in {"TP3_HIT", "STOP_LOSS_HIT"} =>
                    /\ results[k].signal_id \notin ActiveIds(active_signals)
                    /\ results[k].signal_id \notin IndexedIds(symbol_signals)
                    /\ \E d \in DOMAIN db_calls :
                            /\ db_calls[d].call = "mark_signal_closed"
                            /\ db_calls[d].signal_id = results[k].signal_id
                            /\ db_calls[d].reason = results[k].event
    /\ \A i \in DOMAIN active_signals :
            ~active_signals[i].tp3_hit /\ ~active_signals[i].stop_loss_hit

\* C5 witness: an update_prices call has reported a stop-loss hit while another
\* signal stays active
C5_Witness ==
    /\ last_op.op = "update_prices"
    /\ \E k \in DOMAIN results : results[k].event = "STOP_LOSS_HIT"
    /\ active_signals # <<>>

\* C6, as stated: a signal that has been open for more than 24 hours when
\* update_prices is called is no longer active when the call returns, and storage
\* was asked to mark it closed with reason EXPIRED, whatever the price map holds.
C6_ExpiredWhateverThePrice ==
    [][UpdateStep =>
        \A i \in DOMAIN active_signals :
            (now - active_signals[i].timestamp > timeout_hours) =>
                /\ active_signals[i].signal_id \notin ActiveIds(active_signals')
                /\ \E d \in DOMAIN db_calls' :
                        /\ db_calls'[d].call = "mark_signal_closed"
                        /\ db_calls'[d].signal_id = active_signals[i].signal_id
                        /\ db_calls'[d].reason = "EXPIRED"]_vars

----------------------------------------------------------------------------
(* Properties of the collector, checked under CollectorSpec and EngineSpec *)

\* The adapters a lookup called
Called(calls) == {calls[k].source : k \in DOMAIN calls}

\* C7, as stated: get_symbol_data calls the current adapter first when it is
\* enabled; when every adapter it called failed (no data or a raise), it has
\* called every enabled adapter, the others in preference order; when one
\* returned data, that adapter is the current one afterwards and its data is the
\* result.
C7_FailoverInOrder ==
    [][lookup'.op = "get_symbol_data" =>
        LET calls == lookup'.calls
        IN  /\ sources[current_source_index].enabled =>
                    /\ calls # <<>>
                    /\ calls[1].source = current_source_index
            /\ \A a, b \in DOMAIN calls :
                    (1 < a /\ a < b) => calls[a].source < calls[b].source
            /\ (\A k \in DOMAIN calls : calls[k].outcome # "data") =>
                    \A i \in SourceIds : sources[i].enabled => i \in Called(calls)
            /\ \A k \in DOMAIN calls : calls[k].outcome = "data" =>
                    /\ k = Len(calls)
                    /\ lookup'.result = DataFrom(calls[k].source)
                    /\ current_source_index' = calls[k].source]_vars

\* C8: every adapter call made by get_symbol_data, get_historical_data or
\* test_connection goes to an adapter whose enabled flag is true at the moment of
\* the call.
C8_OnlyEnabledInvoked ==
    lookup.op \in {"get_symbol_data", "get_historical_data", "test_connection"} =>
        \A k \in DOMAIN lookup.calls : lookup.calls[k].enabled

\* C8 witness: a lookup has called adapters while one adapter, disabled by its
\* errors, was left out
C8_Witness ==
    /\ lookup.op = "get_symbol_data"
    /\ lookup.calls # <<>>
    /\ \E i \in SourceIds :
            /\ ~sources[i].enabled
            /\ sources[i].error_count > ErrorThreshold
            /\ i \notin Called(lookup.calls)

\* C9: in every reachable state an adapter with more than 10 recorded errors is
\* disabled, and no step enables an adapter that is disabled.
C9_DisabledForGood ==
    /\ [](\A i \in SourceIds :
            sources[i].error_count > ErrorThreshold => ~sources[i].enabled)
    /\ [][\A i \in SourceIds : ~sources[i].enabled => ~sources'[i].enabled]_vars

\* C9 witness: one adapter was disabled by a failed initialization, another by
\* its errors, and a lookup has run since
C9_Witness ==
    /\ lookup.op \in {"get_symbol_data", "get_historical_data", "test_connection"}
    /\ lookup.calls # <<>>
    /\ \E i, j \in SourceIds :
            /\ ~sources[i].enabled /\ sources[i].error_count = 0
            /\ ~sources[j].enabled /\ sources[j].error_count > ErrorThreshold

\* C10: the get_symbol_data of an analysis cycle never raises to the cycle; when
\* no adapter it called returned data its result is empty; a symbol with an
\* empty result is left out of the cycle's market data, and the cycle goes on to
\* the symbols that remain.
C10_EmptyNotRaised ==
    /\ lookup.op = "run_analysis_cycle" =>
            /\ lookup.result.kind \in {"data", "empty"}
            /\ (\A k \in DOMAIN lookup.calls : lookup.calls[k].outcome # "data")
                    => lookup.result = NoData
    /\ \A s \in DOMAIN cycle.fetched :
            /\ cycle.fetched[s] \in {"data", "empty"}
            /\ cycle.fetched[s] = "empty" => s \notin cycle.market_data
            /\ cycle.fetched[s] = "data" => s \in cycle.market_data
    /\ (cycle.fetched # EmptyMap /\ DOMAIN cycle.fetched # Symbols)
            => cycle.outcome = "collecting"

\* C10 witness: for the first symbol of a cycle every enabled adapter was called
\* and failed, one with no data and one by raising; the result was empty and
\* the cycle is going on to the next symbol
C10_Witness ==
    /\ lookup.op = "run_analysis_cycle"
    /\ cycle.fetched = ("BTC-USD" :> "empty")
    /\ cycle.outcome = "collecting"
    /\ \A i \in SourceIds : sources[i].enabled => i \in Called(lookup.calls)
    /\ \E k \in DOMAIN lookup.calls : lookup.calls[k].outcome = "empty"
    /\ \E k \in DOMAIN lookup.calls : lookup.calls[k].outcome = "raise"

----------------------------------------------------------------------------
(* generate_signals called again and again as time passes                  *)

\* The instants, in minutes, at which the generator is called
Instants == <<0, 4, 5, 61, 65, 1445>>

\* Settings under which candidates pass, with a low hourly ceiling
RateSettings ==
    {[MIN_CONFIDENCE |-> 65, RISK_REWARD_MIN |-> 20, MAX_SIGNALS_PER_HOUR |-> m] :
        m \in {1, 2, 3}}

RateContext == MarketContext("SIDEWAYS", "MEDIUM", "STRONG")

\* What a cycle can hand over for one symbol: a candidate that passes both
\* thresholds, one that fails the confidence threshold, one without indicators
RateCandidates(symbol) ==
    {Candidate(symbol, 100, Volume(100, 100, FALSE), "composite", "BULLISH", 80, 3),
     Candidate(symbol, 100, Volume(100, 100, FALSE), "composite", "BULLISH", 50, 0),
     Candidate(symbol, 100, Volume(100, 100, FALSE), "none", "NEUTRAL", 50, 0)}

\* market_data of a cycle: the symbols that had data, in the order of SYMBOLS
CycleCandidates ==
    {<<c1, c2>> : c1 \in RateCandidates(EngineSymbols[1]),
                  c2 \in RateCandidates(EngineSymbols[2])}
    \cup {<<c>> : c \in RateCandidates(EngineSymbols[1]) \cup RateCandidates(EngineSymbols[2])}

GeneratorSpecInit ==
    /\ TrackerInit
    /\ CollectorInit
    /\ StorageInit
    /\ FunctionInit
    /\ gen_clock = Instants[1]
    /\ settings \in RateSettings
    /\ recent_signals = <<>>
    /\ symbol_cooldowns = EmptyMap
    /\ generated = Generated("none", <<>>, NoContext, <<>>)

GenerateSignals ==
    \E candidates \in CycleCandidates :
        LET r == generate_signals(settings, Generator, candidates, RateContext, gen_clock)
        IN  /\ recent_signals' = r.g.recent_signals
            /\ symbol_cooldowns' = r.g.symbol_cooldowns
            /\ generated' = Generated("generate_signals", candidates, RateContext, r.signals)
            /\ UNCHANGED <<tracker_vars, collector_vars, storage_vars, function_vars,
                   gen_clock, settings>>

\* Time passes to the next instant
GeneratorTick ==
    \E i \in 1..(Len(Instants) - 1) :
        /\ gen_clock = Instants[i]
        /\ gen_clock' = Instants[i + 1]
        /\ UNCHANGED <<tracker_vars, collector_vars, storage_vars, function_vars,
                   settings, recent_signals,
                       symbol_cooldowns, generated>>

GeneratorNext == GenerateSignals \/ GeneratorTick

GeneratorSpec == GeneratorSpecInit /\ [][GeneratorNext]_vars

----------------------------------------------------------------------------
(* add_signal on a symbol that already has a signal, over confidences on   *)
(* both sides of the two thresholds                                        *)

ResolveConfidences == {60, 70, 80, 81, 85, 86}

ResolveSymbol == "BTC-USD"

\* The record of an add_signal call, with the signal that came in
LastAdd(signal, action) ==
    [op |-> "add_signal", signal_id |-> signal.signal_id, action |-> action,
     market_data |-> EmptyMap, signal |-> signal]

AddSignalAgain ==
    \E direction \in Directions, confidence \in ResolveConfidences :
        LET signal == NewSignal(ResolveSymbol, direction, confidence, now)
            t == add_signal(Tracker, signal)
        IN  /\ WholeAverage(signal)
            /\ active_signals' = t.active_signals
            /\ symbol_signals' = t.symbol_signals
            /\ db_calls' = t.db_calls
            /\ observed' = t.observed
            /\ results' = <<>>
            /\ last_op' = LastAdd(signal, ResolveAction(Tracker, signal))
            /\ UNCHANGED <<now, collector_vars, generator_vars, storage_vars, function_vars>>

ResolveNext == AddSignalAgain \/ UpdatePrices \/ Tick

ResolveSpec == Init /\ [][ResolveNext]_vars

----------------------------------------------------------------------------
(* The tracker over a storage that works or fails, one symbol              *)

\* The record of a tracker call and of whether storage worked during it
LastStored(op, signal, action, market_data, storage_up) ==
    [op |-> op, signal_id |-> signal.signal_id, action |-> action,
     market_data |-> market_data, signal |-> signal, storage_up |-> storage_up]

NoSignal == [signal_id |-> <<>>]

AddSignalStoring ==
    \E direction \in Directions, confidence \in Confidences, storage_up \in BOOLEAN :
        LET signal == NewSignal(ResolveSymbol, direction, confidence, now)
            t == add_signal(TrackerWith(storage_up), signal)
        IN  /\ WholeAverage(signal)
            /\ active_signals' = t.active_signals
            /\ symbol_signals' = t.symbol_signals
            /\ db_calls' = t.db_calls
            /\ observed' = t.observed
            /\ results' = <<>>
            /\ last_op' = LastStored("add_signal", signal, ResolveAction(Tracker, signal),
                                     EmptyMap, storage_up)
            /\ UNCHANGED <<now, collector_vars, generator_vars, storage_vars, function_vars>>

UpdatePricesStoring ==
    \E market_data \in [{ResolveSymbol} -> Prices], storage_up \in BOOLEAN :
        LET r == update_prices(TrackerWith(storage_up), market_data, now)
        IN  /\ active_signals' = r.t.active_signals
            /\ symbol_signals' = r.t.symbol_signals
            /\ db_calls' = r.t.db_calls
            /\ observed' = r.t.observed
            /\ results' = r.results
            /\ last_op' = LastStored("update_prices", NoSignal, "", market_data, storage_up)
            /\ UNCHANGED <<now, collector_vars, generator_vars, storage_vars, function_vars>>

StorageNext == AddSignalStoring \/ UpdatePricesStoring \/ Tick

StorageSpec == Init /\ [][StorageNext]_vars

----------------------------------------------------------------------------
(* DatabaseManager.save_signal (src/data/database_manager.py) over the     *)
(* signals table: a set of rows, each with its autoincrement id            *)

\* SignalRecord(...) as save_signal builds it; status is signal.status.value
SignalRecord(row_id, signal) ==
    [id |-> row_id, signal_id |-> signal.signal_id, symbol |-> signal.symbol,
     direction |-> signal.direction, timestamp |-> signal.timestamp,
     entry_price |-> signal.entry_price, tp1 |-> signal.tp1, tp2 |-> signal.tp2,
     tp3 |-> signal.tp3, stop_loss |-> signal.stop_loss,
     confidence |-> signal.confidence, status |-> "ACTIVE"]

\* session.query(SignalRecord).filter(SignalRecord.signal_id == signal_id)
RowsOf(records, signal_id) == {r \in records : r.signal_id = signal_id}

\* A save_signal without the existence check: every call adds a row
save_signal_inserting(records, signal, db_up) ==
    IF ~db_up THEN [records |-> records, result |-> FALSE]
    ELSE [records |-> records \cup {SignalRecord(Cardinality(records) + 1, signal)},
          result |-> TRUE]

\* DatabaseManager.save_signal; a session or commit that fails raises inside
\* the try, and the method returns False
save_signal(records, signal, db_up) ==
    IF ~db_up THEN [records |-> records, result |-> FALSE]
    ELSE IF RowsOf(records, signal.signal_id) # {}
    THEN [records |-> records, result |-> TRUE]
    ELSE [records |-> records \cup {SignalRecord(Cardinality(records) + 1, signal)},
          result |-> TRUE]

Saved(signal, db_up, result) ==
    [op |-> "save_signal", signal |-> signal, db_up |-> db_up, result |-> result]

\* The signals table starts empty here as a set
SaveSignal ==
    \E symbol \in Symbols, direction \in Directions, confidence \in Confidences,
       db_up \in BOOLEAN :
        LET signal == NewSignal(symbol, direction, confidence, now)
            r == save_signal(signal_records, signal, db_up)
        IN  /\ signal_records' = r.records
            /\ saved' = Saved(signal, db_up, r.result)
            /\ UNCHANGED <<tracker_vars, collector_vars, generator_vars, function_vars>>

SaveSpec == Init /\ [][SaveSignal]_vars

----------------------------------------------------------------------------
(* MarketContextAnalyzer (src/intelligence/market_context.py) and what the *)
(* generator reads of its answer.  price_change_percent is in tenths of a  *)
(* percent, a volatility in hundredths of a percent.                       *)

\* One symbol's snapshot as the analyzer reads it
SymbolData(price, price_change_percent, high_24h, low_24h) ==
    [price |-> price, price_change_percent |-> price_change_percent,
     high_24h |-> high_24h, low_24h |-> low_24h]

\* MarketContextAnalyzer._calculate_volatility: round(range / current * 100, 2)
_calculate_volatility(high, low, current) ==
    IF current <= 0 THEN 0
    ELSE ((high - low) * 20000 + current) \div (2 * current)

\* MarketContextAnalyzer._determine_trend
_determine_trend(price_change_24h) ==
    IF price_change_24h > 20 THEN "BULLISH"
    ELSE IF price_change_24h < -20 THEN "BEARISH"
    ELSE "NEUTRAL"

\* MarketContextAnalyzer._categorize_volatility of the mean total / count
_categorize_volatility(total, count) ==
    IF total > 1000 * count THEN "VERY_HIGH"
    ELSE IF total > 500 * count THEN "HIGH"
    ELSE IF total > 200 * count THEN "MEDIUM"
    ELSE IF total > 100 * count THEN "LOW"
    ELSE "VERY_LOW"

\* MarketContextAnalyzer._analyze_symbol_context: the two fields the aggregate reads
_analyze_symbol_context(data) ==
    [volatility |-> _calculate_volatility(data.high_24h, data.low_24h, data.price),
     trend |-> _determine_trend(data.price_change_percent)]

\* MarketContextAnalyzer._get_default_context
_get_default_context ==
    [overall_trend |-> "NEUTRAL", trend_strength |-> Ratio(0, 1),
     market_volatility |-> Ratio(0, 1), volatility_level |-> "UNKNOWN"]

RECURSIVE SumVolatility(_)
SumVolatility(symbol_analyses) ==
    IF symbol_analyses = <<>> THEN 0
    ELSE Head(symbol_analyses).volatility + SumVolatility(Tail(symbol_analyses))

\* MarketContextAnalyzer._aggregate_market_context; max() over trend_counts
\* takes the first of BULLISH, BEARISH, NEUTRAL with the highest count
_aggregate_market_context(symbol_analyses) ==
    IF symbol_analyses = <<>> THEN _get_default_context
    ELSE
        LET total_symbols == Len(symbol_analyses)
            trend_counts == [trend \in {"BULLISH", "BEARISH", "NEUTRAL"} |->
                Cardinality({i \in 1..total_symbols : symbol_analyses[i].trend = trend})]
            max_trend ==
                IF /\ trend_counts["BULLISH"] >= trend_counts["BEARISH"]
                   /\ trend_counts["BULLISH"] >= trend_counts["NEUTRAL"] THEN "BULLISH"
                ELSE IF trend_counts["BEARISH"] >= trend_counts["NEUTRAL"] THEN "BEARISH"
                ELSE "NEUTRAL"
            total_volatility == SumVolatility(symbol_analyses)
        IN  [overall_trend |-> max_trend,
             trend_strength |-> Ratio(trend_counts[max_trend], total_symbols),
             market_volatility |-> Ratio(total_volatility, total_symbols),
             volatility_level |-> _categorize_volatility(total_volatility, total_symbols)]

\* MarketContextAnalyzer.analyze_market_context
analyze_market_context(market_data) ==
    IF market_data = <<>> THEN _get_default_context
    ELSE _aggregate_market_context(
            [i \in 1..Len(market_data) |-> _analyze_symbol_context(market_data[i])])

\* What the generator's market_context.get(...) calls give on a context of
\* the analyzer: 'overall_trend' is there, 'volatility' is no key of it, so
\* the default 'MEDIUM' is read, and 'trend_strength' is a float, which is
\* no key of the trend multiplier table ("float" stands for it here)
ContextRead(context) ==
    MarketContext(context.overall_trend,
                  IF "volatility" \in DOMAIN context THEN context.volatility ELSE "MEDIUM",
                  "float")

\* Snapshots at price 200: the 24h move and the 24h range
MoveSet == {-30, 0, 30}

RangeSet == {0, 3, 6, 14, 24}

SymbolDatas ==
    {SymbolData(200, move, 200 + range, 200) : move \in MoveSet, range \in RangeSet}

MaxAnalyzed == 2

MarketDatas ==
    UNION {[1..n -> SymbolDatas] : n \in 1..MaxAnalyzed}

\* One candidate: price 100, a volume at its average, 3 of 5 indicators agreeing
ContextCandidate ==
    Candidate("BTC-USD", 100, Volume(100, 100, FALSE), "composite", "BULLISH", 60, 3)

ContextInit ==
    /\ TrackerInit
    /\ CollectorInit
    /\ GeneratorInit
    /\ StorageInit
    /\ returned = [op |-> "none"]
    /\ \E market_data \in MarketDatas, direction \in Directions :
        applied = [op |-> "run_analysis_cycle", market_data |-> market_data,
                   direction |-> direction, candidate |-> ContextCandidate]

\* Steps 2 and 4 of _run_analysis_cycle for one symbol: the context of the
\* analyzer goes to the generator's confidence and level computations
AnalyzeAndGenerate ==
    /\ applied.op = "run_analysis_cycle"
    /\ returned.op = "none"
    /\ LET market_context == analyze_market_context(applied.market_data)
           read == ContextRead(market_context)
       IN  returned' =
            [op |-> "run_analysis_cycle", market_context |-> market_context,
             confidence |-> _calculate_signal_confidence(
                                applied.candidate.overall_score, read, applied.candidate),
             levels |-> _calculate_dynamic_levels(
                                applied.candidate.price, applied.direction, read)]
    /\ UNCHANGED <<tracker_vars, collector_vars, generator_vars, storage_vars, applied>>

ContextSpec == ContextInit /\ [][AnalyzeAndGenerate]_vars

----------------------------------------------------------------------------
(* _calculate_dynamic_levels and _calculate_risk_reward applied to one     *)
(* entry price, direction and market context                               *)

EntryPrices == {1, 100, 250}

LevelsInit ==
    /\ TrackerInit
    /\ CollectorInit
    /\ GeneratorInit
    /\ StorageInit
    /\ returned = [op |-> "none"]
    /\ \E entry_price \in EntryPrices, direction \in Directions,
          market_context \in MarketContexts :
        applied = [op |-> "_calculate_dynamic_levels", entry_price |-> entry_price,
                   direction |-> direction, market_context |-> market_context]

\* levels = _calculate_dynamic_levels(...) and then
\* risk_reward = _calculate_risk_reward(current_price, levels, signal_direction)
CalculateDynamicLevels ==
    /\ applied.op = "_calculate_dynamic_levels"
    /\ returned.op = "none"
    /\ LET levels == _calculate_dynamic_levels(applied.entry_price, applied.direction,
                                               applied.market_context)
       IN  returned' = [op |-> "_calculate_dynamic_levels", levels |-> levels,
                        risk_reward |-> _calculate_risk_reward(applied.entry_price, levels,
                                                               applied.direction)]
    /\ UNCHANGED <<tracker_vars, collector_vars, generator_vars, storage_vars, applied>>

LevelsSpec == LevelsInit /\ [][CalculateDynamicLevels]_vars

----------------------------------------------------------------------------
(* The adapters' get_symbol_data (src/data/collectors/coingecko_simple.py, *)
(* src/data/collectors/binance_collector.py) over the answers of the       *)
(* venue: one answer per request, in the order the requests are made.      *)
(* Waits are in seconds.                                                   *)

\* What one session.get gives: status 200 with the symbol's data, status 200
\* without it, status 429, another status, or an exception (network error)
Responses == {"ok", "no_data", "rate_limit", "error", "exception"}

max_retries == 3

\* What a call has done: its result (data or the empty dict), the number of
\* requests it made and the waits it slept between them
Outcome(result, attempts, waits) ==
    [result |-> result, attempts |-> attempts, waits |-> waits]

RECURSIVE Power(_, _)
Power(base, exponent) ==
    IF exponent = 0 THEN 1 ELSE base * Power(base, exponent - 1)

\* The retry loop of CoinGeckoSimpleSource.get_symbol_data from one attempt
\* (counted from 0) on
RECURSIVE CoinGeckoAttempt(_, _, _)
CoinGeckoAttempt(responses, attempt, waits) ==
    IF attempt >= max_retries THEN Outcome("empty", attempt, waits)
    ELSE
        LET response == responses[attempt + 1]
        IN  CASE response = "ok" -> Outcome("data", attempt + 1, waits)
              [] response = "no_data" -> Outcome("empty", attempt + 1, waits)
              [] response = "rate_limit" ->
                    CoinGeckoAttempt(responses, attempt + 1,
                                     Append(waits, Power(2, attempt) * 5))
              [] response = "exception" ->
                    IF attempt < max_retries - 1
                    THEN CoinGeckoAttempt(responses, attempt + 1, Append(waits, 5))
                    ELSE Outcome("empty", attempt + 1, waits)
              [] OTHER -> Outcome("empty", attempt + 1, waits)

\* CoinGeckoSimpleSource.get_symbol_data for a symbol of its symbol_map
CoinGeckoSimpleSource_get_symbol_data(responses) ==
    CoinGeckoAttempt(responses, 0, <<>>)

\* BinanceSource.get_symbol_data for a symbol of its symbol_map: one request;
\* any body of a status 200 gives a dict with the symbol
BinanceSource_get_symbol_data(responses) ==
    IF responses[1] \in {"ok", "no_data"} THEN Outcome("data", 1, <<>>)
    ELSE Outcome("empty", 1, <<>>)

Adapters == {"CoinGeckoSimpleSource", "BinanceSource"}

AdapterInit ==
    /\ TrackerInit
    /\ CollectorInit
    /\ GeneratorInit
    /\ StorageInit
    /\ returned = [op |-> "none"]
    /\ \E adapter \in Adapters, responses \in [1..max_retries -> Responses] :
        applied = [op |-> "get_symbol_data", adapter |-> adapter,
                   responses |-> responses]

\* One call of an adapter's get_symbol_data
AdapterGetSymbolData ==
    /\ applied.op = "get_symbol_data"
    /\ returned.op = "none"
    /\ returned' = [op |-> "get_symbol_data"] @@
            (IF applied.adapter = "BinanceSource"
             THEN BinanceSource_get_symbol_data(applied.responses)
             ELSE CoinGeckoSimpleSource_get_symbol_data(applied.responses))
    /\ UNCHANGED <<tracker_vars, collector_vars, generator_vars, storage_vars, applied>>

AdapterSpec == AdapterInit /\ [][AdapterGetSymbolData]_vars

----------------------------------------------------------------------------
(* The direction rules applied to one composite                            *)

\* overall_bias of a composite, and a value that is none of the five names
DirectionBiases == Biases \cup {"UNKNOWN"}

\* overall_score values on both sides of 45, 55, 70 and 75
DirectionScores == {0, 30, 44, 45, 46, 50, 54, 55, 56, 70, 71, 75, 76, 100}

DirectionInit ==
    /\ TrackerInit
    /\ CollectorInit
    /\ GeneratorInit
    /\ StorageInit
    /\ returned = [op |-> "none"]
    /\ \E overall_bias \in DirectionBiases, overall_score \in DirectionScores :
        applied = [op |-> "signal_direction", overall_bias |-> overall_bias,
                   overall_score |-> overall_score]

\* The "Determine signal direction" step of _generate_symbol_signal
DetermineSignalDirection ==
    /\ applied.op = "signal_direction"
    /\ returned.op = "none"
    /\ returned' = [op |-> "signal_direction"] @@
                        SignalDirection(applied.overall_bias, applied.overall_score)
    /\ UNCHANGED <<tracker_vars, collector_vars, generator_vars, storage_vars, applied>>

DirectionSpec == DirectionInit /\ [][DetermineSignalDirection]_vars

----------------------------------------------------------------------------
(* _calculate_signal_confidence applied to one base confidence, market     *)
(* context and candidate                                                   *)

BaseConfidences == {0, 5, 50, 90, 98, 100}

ConfidenceContexts ==
    {MarketContext(trend, volatility, "MEDIUM") :
        trend \in Trends, volatility \in {"LOW", "MEDIUM", "HIGH"}}

ConfidenceCandidates ==
    {Candidate("BTC-USD", 100, volume, "composite", "BULLISH", 50, contributing) :
        volume \in Volumes, contributing \in Contributing}

ConfidenceInit ==
    /\ TrackerInit
    /\ CollectorInit
    /\ GeneratorInit
    /\ StorageInit
    /\ returned = [op |-> "none"]
    /\ \E base_confidence \in BaseConfidences, market_context \in ConfidenceContexts,
          candidate \in ConfidenceCandidates :
        applied = [op |-> "_calculate_signal_confidence",
                   base_confidence |-> base_confidence,
                   market_context |-> market_context, candidate |-> candidate]

\* final_confidence = await self._calculate_signal_confidence(...)
CalculateSignalConfidence ==
    /\ applied.op = "_calculate_signal_confidence"
    /\ returned.op = "none"
    /\ returned' = [op |-> "_calculate_signal_confidence",
                    confidence |-> _calculate_signal_confidence(applied.base_confidence,
                                        applied.market_context, applied.candidate)]
    /\ UNCHANGED <<tracker_vars, collector_vars, generator_vars, storage_vars, applied>>

ConfidenceSpec == ConfidenceInit /\ [][CalculateSignalConfidence]_vars

----------------------------------------------------------------------------
(* IndicatorManager._calculate_composite_scores                            *)
(* (src/indicators/indicator_manager.py) over the results of four of the   *)
(* registered indicators.  Weights are in hundredths; overall_score is the *)
(* pair of its numerator and denominator.                                  *)

IndicatorNames == {"SMA_20", "BB_20", "MACD_12_26_9", "STOCH_14_3"}

\* self.indicator_weights of IndicatorManager.initialize
indicator_weights ==
    [name \in IndicatorNames |->
        CASE name = "SMA_20" -> 10
          [] name = "BB_20" -> 15
          [] name = "MACD_12_26_9" -> 10
          [] name = "STOCH_14_3" -> 10]

\* indicator.category, which _calculate_single_indicator writes into a result
IndicatorCategory(name) ==
    IF name \in {"SMA_20", "BB_20"} THEN "trend" ELSE "momentum"

\* signal_strength of a result: the indicators cap it to [0,100]
Strengths == {0, 30, 45, 50, 55, 70, 100}

\* The result of one indicator in indicator_results: absent (its calculation
\* failed and calculate_indicators left it out), or computed, with or without
\* a signal_strength (the result of SMAIndicator.calculate has none)
Absent == [computed |-> FALSE, has_strength |-> FALSE, signal_strength |-> 0]

Computed(has_strength, signal_strength) ==
    [computed |-> TRUE, has_strength |-> has_strength, signal_strength |-> signal_strength]

ResultsOf(name) ==
    IF name = "SMA_20" THEN {Absent, Computed(FALSE, 0)}
    ELSE {Absent} \cup {Computed(TRUE, strength) : strength \in Strengths}

IndicatorResults ==
    {results_by_name \in [IndicatorNames -> {Absent, Computed(FALSE, 0)}
                                            \cup {Computed(TRUE, s) : s \in Strengths}] :
        \A name \in IndicatorNames : results_by_name[name] \in ResultsOf(name)}

\* The sum of term[name] over a set of names
RECURSIVE SumOver(_, _)
SumOver(names, term) ==
    IF names = {} THEN 0
    ELSE LET name == CHOOSE n \in names : TRUE
         IN  term[name] + SumOver(names \ {name}, term)

\* Bias thresholds that include the bounds 70, 55, 30 and 45
OverallBiasInclusive(overall_score) ==
    IF overall_score.num >= 70 * overall_score.den THEN "STRONG_BULLISH"
    ELSE IF overall_score.num >= 55 * overall_score.den THEN "BULLISH"
    ELSE IF overall_score.num <= 30 * overall_score.den THEN "STRONG_BEARISH"
    ELSE IF overall_score.num <= 45 * overall_score.den THEN "BEARISH"
    ELSE "NEUTRAL"

\* Bias thresholds that split at 50: bullish above, bearish below
OverallBiasFromFifty(overall_score) ==
    IF overall_score.num > 70 * overall_score.den THEN "STRONG_BULLISH"
    ELSE IF overall_score.num > 50 * overall_score.den THEN "BULLISH"
    ELSE IF overall_score.num < 30 * overall_score.den THEN "STRONG_BEARISH"
    ELSE IF overall_score.num < 50 * overall_score.den THEN "BEARISH"
    ELSE "NEUTRAL"

\* The bias thresholds of _calculate_composite_scores on overall_score
OverallBias(overall_score) ==
    IF overall_score.num > 70 * overall_score.den THEN "STRONG_BULLISH"
    ELSE IF overall_score.num > 55 * overall_score.den THEN "BULLISH"
    ELSE IF overall_score.num < 30 * overall_score.den THEN "STRONG_BEARISH"
    ELSE IF overall_score.num < 45 * overall_score.den THEN "BEARISH"
    ELSE "NEUTRAL"

\* IndicatorManager._calculate_composite_scores.  With no weight counted the
\* else branch assigns overal_score, overall_score is unbound at the bias
\* test, and the except branch answers with its fixed composite
_calculate_composite_scores(indicator_results) ==
    LET counted == {name \in IndicatorNames :
                        /\ indicator_results[name].computed
                        /\ indicator_results[name].has_strength}
        weighted == [name \in IndicatorNames |->
                        indicator_results[name].signal_strength * indicator_weights[name]]
        total_weight == SumOver(counted, indicator_weights)
        trend_score == SumOver({name \in counted : IndicatorCategory(name) = "trend"},
                               weighted)
        momentum_score == SumOver({name \in counted : IndicatorCategory(name) = "momentum"},
                                  weighted)
        overall_score == Ratio(trend_score + momentum_score, total_weight)
    IN  IF total_weight > 0
        THEN [overall_score |-> overall_score,
              overall_bias |-> OverallBias(overall_score),
              contributing_indicators |->
                    {name \in counted : indicator_results[name].signal_strength > 45},
              total_indicators |->
                    Cardinality({name \in IndicatorNames : indicator_results[name].computed}),
              error |-> FALSE]
        ELSE [overall_score |-> Ratio(50, 1), overall_bias |-> "NEUTRAL",
              contributing_indicators |-> {}, total_indicators |-> 1, error |-> TRUE]

CompositeInit ==
    /\ TrackerInit
    /\ CollectorInit
    /\ GeneratorInit
    /\ StorageInit
    /\ returned = [op |-> "none"]
    /\ \E indicator_results \in IndicatorResults :
        applied = [op |-> "_calculate_composite_scores",
                   indicator_results |-> indicator_results]

\* composite_scores = await self._calculate_composite_scores(results, market_context)
CalculateCompositeScores ==
    /\ applied.op = "_calculate_composite_scores"
    /\ returned.op = "none"
    /\ returned' = [op |-> "_calculate_composite_scores",
                    composite |-> _calculate_composite_scores(applied.indicator_results)]
    /\ UNCHANGED <<tracker_vars, collector_vars, generator_vars, storage_vars, applied>>

CompositeSpec == CompositeInit /\ [][CalculateCompositeScores]_vars

----------------------------------------------------------------------------
(* PulseEngine._run_analysis_cycle, steps 5 to 7: save the generated       *)
(* signal, add it to the tracker, update the tracker with the snapshot     *)
(* prices; the tracker's storage calls act on the signals table.  One      *)
(* symbol; a generated signal has the snapshot price as its entry price.   *)

CycleConfidences == {60, 90}

\* Snapshot prices of a cycle without a signal: a BUY's stop and a SELL's stop
CyclePrices == {985, 1015}

\* DatabaseManager.mark_signal_closed on the signals table
MarkSignalClosed(records, signal_id) ==
    {IF r.signal_id = signal_id THEN [r EXCEPT !.status = "CLOSED"] ELSE r : r \in records}

\* The signals table after the tracker's storage calls of one cycle
RECURSIVE ApplyStorageCalls(_, _)
ApplyStorageCalls(records, calls) ==
    IF calls = <<>> THEN records
    ELSE LET c == Head(calls)
         IN  ApplyStorageCalls(
                IF c.call = "mark_signal_closed" /\ c.ok
                THEN MarkSignalClosed(records, c.signal_id) ELSE records,
                Tail(calls))

\* Steps 5 to 7 for the signals of a cycle (none or one) and its snapshot price
StoreAndTrack(signals, price) ==
    LET stored == IF signals = <<>> THEN signal_records
                  ELSE save_signal(signal_records, signals[1], TRUE).records
        added == IF signals = <<>> THEN Tracker ELSE add_signal(Tracker, signals[1])
        r == update_prices(added, ResolveSymbol :> price, now)
    IN  /\ signal_records' = ApplyStorageCalls(stored, r.t.db_calls)
        /\ active_signals' = r.t.active_signals
        /\ symbol_signals' = r.t.symbol_signals
        /\ db_calls' = r.t.db_calls
        /\ observed' = r.t.observed
        /\ results' = r.results
        /\ UNCHANGED <<now, collector_vars, generator_vars, function_vars>>

\* A cycle in which the generator returned a signal for the symbol
CycleWithSignal ==
    \E direction \in Directions, confidence \in CycleConfidences :
        LET signal == NewSignal(ResolveSymbol, direction, confidence, now)
        IN  /\ WholeAverage(signal)
            /\ StoreAndTrack(<<signal>>, signal.entry_price)
            /\ saved' = Saved(signal, TRUE, TRUE)
            /\ last_op' = LastAdd(signal, ResolveAction(Tracker, signal))

\* A cycle in which the generator returned nothing
CycleWithoutSignal ==
    \E price \in CyclePrices :
        /\ StoreAndTrack(<<>>, price)
        /\ saved' = [op |-> "none"]
        /\ last_op' = LastOp("update_prices", <<>>, "", ResolveSymbol :> price)

CycleNext == CycleWithSignal \/ CycleWithoutSignal \/ Tick

CycleSpec == Init /\ [][CycleNext]_vars

----------------------------------------------------------------------------
(* generate_signals tried on every combination of snapshot, composite and  *)
(* market context, for one configuration of the settings                   *)

\* Values of MIN_CONFIDENCE, RISK_REWARD_MIN and MAX_SIGNALS_PER_HOUR, the
\* shipped 65, 25 and 20 among them
EmissionSettings ==
    {[MIN_CONFIDENCE |-> c, RISK_REWARD_MIN |-> r, MAX_SIGNALS_PER_HOUR |-> m] :
        c \in {0, 50, 65, 80}, r \in {0, 15, 20, 24, 25, 30}, m \in {1, 3, 20}}

EmissionCandidates ==
    {Candidate("BTC-USD", price, volume, "composite", bias, score, contributing) :
        price \in {100, 250},
        volume \in {Volume(100, 100, FALSE), Volume(200, 100, FALSE)},
        bias \in Biases, score \in Scores \cup {5, 100}, contributing \in {0, 4}}

EmissionInit ==
    /\ TrackerInit
    /\ CollectorInit
    /\ StorageInit
    /\ gen_clock = 0
    /\ recent_signals = <<>>
    /\ symbol_cooldowns = EmptyMap
    /\ generated = Generated("none", <<>>, NoContext, <<>>)
    /\ settings \in EmissionSettings
    /\ applied = [op |-> "generate_signals"]
    /\ returned = [op |-> "none"]

\* generate_signals called by a generator that has emitted nothing yet, once
\* for every combination: whether any call returns a signal
GenerateForEveryInput ==
    /\ applied.op = "generate_signals"
    /\ returned.op = "none"
    /\ returned' =
        [op |-> "generate_signals",
         emits |-> \E candidate \in EmissionCandidates, market_context \in MarketContexts :
                        generate_signals(settings, Generator, <<candidate>>,
                                         market_context, gen_clock).signals # <<>>]
    /\ UNCHANGED <<tracker_vars, collector_vars, generator_vars, storage_vars, applied>>

EmissionSpec == EmissionInit /\ [][GenerateForEveryInput]_vars

----------------------------------------------------------------------------
(* The composite of IndicatorManager handed to the direction rules of the  *)
(* generator                                                               *)

\* The direction rules of _generate_symbol_signal on an overall_score given
\* as numerator over denominator; the base confidence is a ratio too
SignalDirectionOfRatio(overall_bias, overall_score) ==
    LET num == overall_score.num
        den == overall_score.den
    IN  IF overall_bias \in {"STRONG_BULLISH", "BULLISH"} /\ num > 45 * den
        THEN [direction |-> "BUY", base_confidence |-> overall_score]
        ELSE IF overall_bias \in {"STRONG_BEARISH", "BEARISH"} /\ num < 55 * den
        THEN [direction |-> "SELL", base_confidence |-> Ratio(100 * den - num, den)]
        ELSE IF overall_bias = "NEUTRAL" /\ num > 70 * den
        THEN [direction |-> IF num > 75 * den THEN "BUY" ELSE "SELL",
              base_confidence |-> overall_score]
        ELSE [direction |-> "", base_confidence |-> Ratio(0, 1)]

\* calculate_indicators puts the composite into the results and
\* _generate_symbol_signal reads overall_score and overall_bias from it
CompositeToDirection ==
    /\ applied.op = "_calculate_composite_scores"
    /\ returned.op = "none"
    /\ LET composite == _calculate_composite_scores(applied.indicator_results)
       IN  returned' = [op |-> "signal_direction", composite |-> composite] @@
                SignalDirectionOfRatio(composite.overall_bias, composite.overall_score)
    /\ UNCHANGED <<tracker_vars, collector_vars, generator_vars, storage_vars, applied>>

CompositeDirectionSpec == CompositeInit /\ [][CompositeToDirection]_vars

----------------------------------------------------------------------------
(* PulseEngine._run_analysis_cycle, steps 1 and 7: the price of a snapshot *)
(* reaches the tracker, one symbol                                         *)

\* What get_symbol_data returned for the symbol: a snapshot with a price, one
\* whose price is 0, and one without the key
Snapshots == {[price |-> 1015, volume |-> 1], [price |-> 0, volume |-> 1], [volume |-> 1]}

\* data.get('price', 0)
PriceOf(data) == IF "price" \in DOMAIN data THEN data.price ELSE 0

\* market_data[symbol] = data.get('price', 0), then
\* tracking_results = await self.signal_tracker.update_prices(market_data)
TrackSnapshot ==
    \E data \in Snapshots :
        LET market_data == ResolveSymbol :> PriceOf(data)
            r == update_prices(Tracker, market_data, now)
        IN  /\ active_signals' = r.t.active_signals
            /\ symbol_signals' = r.t.symbol_signals
            /\ db_calls' = r.t.db_calls
            /\ observed' = r.t.observed
            /\ results' = r.results
            /\ last_op' = LastOp("update_prices", <<>>, "", market_data)
            /\ UNCHANGED <<now, collector_vars, generator_vars, storage_vars, function_vars>>

SnapshotNext == AddSignalAgain \/ TrackSnapshot \/ Tick

SnapshotSpec == Init /\ [][SnapshotNext]_vars

----------------------------------------------------------------------------
(* Claims about SignalGenerator                                            *)

\* The signals the generator's last call returned
Emitted == {generated.signals[i] : i \in 1..Len(generated.signals)}

LevelsOrdered(signal) ==
    IF signal.direction = "BUY"
    THEN /\ signal.stop_loss < signal.entry_price
         /\ signal.entry_price < signal.tp1
         /\ signal.tp1 < signal.tp2
         /\ signal.tp2 < signal.tp3
    ELSE /\ signal.tp3 < signal.tp2
         /\ signal.tp2 < signal.tp1
         /\ signal.tp1 < signal.entry_price
         /\ signal.entry_price < signal.stop_loss

\* C11: every signal the generator emits has its levels strictly ordered,
\* stop_loss < entry_price < tp1 < tp2 < tp3 for BUY and the mirror image for
\* SELL, for every price the generator accepts and every market context, the
\* fallback levels included.
C11_LevelsOrdered == \A signal \in Emitted : LevelsOrdered(signal)

\* C12: every signal the generator emits has 0 <= confidence <= 100 and
\* risk_reward_ratio > 0, for every accepted input and every configured
\* MIN_CONFIDENCE and RISK_REWARD_MIN.
C12_ConfidenceAndRatioInRange ==
    \A signal \in Emitted :
        /\ 0 <= signal.confidence
        /\ signal.confidence <= 100
        /\ signal.risk_reward_ratio.num > 0
        /\ signal.risk_reward_ratio.den > 0

Abs(x) == IF x < 0 THEN -x ELSE x

\* C13: no emitted signal has a final confidence below MIN_CONFIDENCE x 100,
\* and none has (TP1 distance) / (stop-loss distance) below RISK_REWARD_MIN.
C13_ThresholdsRespected ==
    \A signal \in Emitted :
        /\ signal.confidence * 100 >= settings.MIN_CONFIDENCE * 100
        /\ Abs(signal.tp1 - signal.entry_price) * 10
               >= settings.RISK_REWARD_MIN * Abs(signal.stop_loss - signal.entry_price)

\* A signal emitted under non-zero thresholds, from a candidate with a price,
\* a composite and a direction
C13_Witness ==
    /\ generated.op = "_generate_symbol_signal"
    /\ settings.MIN_CONFIDENCE = 65
    /\ settings.RISK_REWARD_MIN = 20
    /\ Emitted # {}
    /\ \E signal \in Emitted : signal.confidence = 65

\* C14: in any trailing one-hour window the number of signals emitted by
\* generate_signals, across all symbols and calls, never exceeds
\* MAX_SIGNALS_PER_HOUR; one call covering several symbols cannot push the count
\* past the ceiling.
C14_HourlyCeiling ==
    Len(After(recent_signals, gen_clock - 60)) <= settings.MAX_SIGNALS_PER_HOUR

\* The signals emitted before this step for the same symbol
EarlierFor(symbol) ==
    {recent_signals[i] : i \in {j \in 1..Len(recent_signals) :
                                    recent_signals[j].symbol = symbol}}

CooldownOf(cooldowns, symbol) ==
    IF symbol \in DOMAIN cooldowns THEN cooldowns[symbol] ELSE -1

\* A call of generate_signals
GenerateStep == generated'.op = "generate_signals" /\ gen_clock' = gen_clock

\* C15: generate_signals never emits a signal for a symbol less than 5 minutes
\* after the previous signal it emitted for that symbol, and only a signal
\* emitted for a symbol starts or moves that symbol's cooldown.
C15_CooldownPerSymbol ==
    [][GenerateStep =>
        /\ \A signal \in Emitted' :
             \A earlier \in EarlierFor(signal.symbol) :
                 signal.timestamp - earlier.timestamp >= 5
        /\ \A i, j \in 1..Len(generated'.signals) :
             generated'.signals[i].symbol = generated'.signals[j].symbol => i = j
        /\ \A symbol \in Symbols :
             CooldownOf(symbol_cooldowns', symbol) # CooldownOf(symbol_cooldowns, symbol)
                 => \E signal \in Emitted' : signal.symbol = symbol]_vars

\* Four minutes after a symbol's signal, a call that is within the hourly
\* ceiling gets a candidate for it that passes both thresholds, emits nothing
\* for it and leaves its cooldown where it was, while the other symbol's
\* candidate is refused and starts no cooldown
C15_Witness ==
    /\ generated.op = "generate_signals"
    /\ Len(generated.candidates) = 2
    /\ \E i, j \in 1..2 :
        LET candidate == generated.candidates[i]
            other == generated.candidates[j]
        IN  /\ i # j
            /\ _generate_symbol_signal(settings, gen_clock, candidate,
                                       generated.market_context) # <<>>
            /\ CooldownOf(symbol_cooldowns, candidate.symbol) = gen_clock - 4
            /\ other.symbol \notin DOMAIN symbol_cooldowns
    /\ Emitted = {}
    /\ Len(After(recent_signals, gen_clock - 60)) < settings.MAX_SIGNALS_PER_HOUR

----------------------------------------------------------------------------
(* Claims about add_signal on an occupied symbol                           *)

\* The step just taken is an add_signal call on a symbol that had a signal
AddStep ==
    /\ last_op'.op = "add_signal"
    /\ now' = now
    /\ IdsOf(symbol_signals, last_op'.signal.symbol) # <<>>

\* The most recent active signal of the incoming signal's symbol, before the call
Existing ==
    LatestSignal(ExistingSignals(active_signals,
                                 IdsOf(symbol_signals, last_op'.signal.symbol)))

\* The signals active for the incoming signal's symbol after the call
ActiveAfter ==
    {active_signals'[i] : i \in {j \in DOMAIN active_signals' :
                                    active_signals'[j].symbol = last_op'.signal.symbol}}

\* The call closed signal_id with this reason
ClosedAs(signal_id, reason) ==
    \E k \in DOMAIN db_calls' :
        /\ db_calls'[k].call = "mark_signal_closed"
        /\ db_calls'[k].signal_id = signal_id
        /\ db_calls'[k].reason = reason

NothingClosed == \A k \in DOMAIN db_calls' : db_calls'[k].call # "mark_signal_closed"

\* a and b agree on everything but the confidence
SameButConfidence(a, b) == [a EXCEPT !.confidence = 0] = [b EXCEPT !.confidence = 0]

\* C16: add_signal with a signal of the same direction as the symbol's most
\* recent active signal: when new.confidence - existing.confidence > 10 the
\* existing signal is closed with reason REPLACED and the new signal is the
\* active one; otherwise (10 or less, negative included) the existing signal
\* stays the only active one and the new signal is not added.
C16_SameDirection ==
    [][(AddStep /\ last_op'.signal.direction = Existing.direction) =>
        IF last_op'.signal.confidence - Existing.confidence > 10
        THEN /\ ClosedAs(Existing.signal_id, "REPLACED")
             /\ ActiveAfter = {last_op'.signal}
        ELSE /\ NothingClosed
             /\ \E kept \in ActiveAfter :
                    /\ ActiveAfter = {kept}
                    /\ SameButConfidence(kept, Existing)]_vars

\* Same direction at a difference of exactly 10: the existing signal of
\* confidence 70 is still the active one after a signal of confidence 80 came in
C16_Witness ==
    /\ last_op.op = "add_signal"
    /\ last_op.action = "reinforce"
    /\ last_op.signal.confidence = 80
    /\ \E i \in DOMAIN active_signals :
        /\ active_signals[i].direction = last_op.signal.direction
        /\ active_signals[i].confidence = 75
        /\ active_signals[i].timestamp < last_op.signal.timestamp

\* The call saved a tracking event of this kind for signal_id
EventSaved(signal_id, event) ==
    \E k \in DOMAIN db_calls' :
        /\ db_calls'[k].call = "save_tracking_event"
        /\ db_calls'[k].signal_id = signal_id
        /\ db_calls'[k].event = event

\* C17, as stated: add_signal with a signal of the opposite direction to the
\* symbol's most recent active signal: when the absolute confidence difference
\* is above 15 the higher-confidence signal is the active one afterwards
\* (existing closed as REPLACED and new added, or new discarded and existing
\* untouched); otherwise the active set is unchanged, the new signal is not
\* added and a SIGNAL_CONFLICTED tracking event is recorded for the existing
\* signal.
C17_OppositeDirection ==
    [][(AddStep /\ last_op'.signal.direction # Existing.direction) =>
        LET confidence_diff == last_op'.signal.confidence - Existing.confidence
        IN  IF confidence_diff > 15
            THEN /\ ClosedAs(Existing.signal_id, "REPLACED")
                 /\ ActiveAfter = {last_op'.signal}
            ELSE IF confidence_diff < -15
            THEN /\ NothingClosed
                 /\ ActiveAfter = {Existing}
            ELSE /\ NothingClosed
                 /\ ActiveAfter = {Existing}
                 /\ EventSaved(Existing.signal_id, "SIGNAL_CONFLICTED")]_vars

\* The existing signal after a reinforcement has the average of the two
\* confidences and is otherwise as it was
Averaged ==
    \E kept \in ActiveAfter :
        /\ ActiveAfter = {kept}
        /\ kept.confidence * 2 = Existing.confidence + last_op'.signal.confidence
        /\ SameButConfidence(kept, Existing)

\* An add_signal step with an existing signal of confidence old and a new
\* signal of the same direction and confidence new
SameDirectionPair(old, new) ==
    /\ AddStep
    /\ last_op'.signal.direction = Existing.direction
    /\ Existing.confidence = old
    /\ last_op'.signal.confidence = new

\* C18: when add_signal reinforces an existing signal its confidence becomes
\* exactly (old + new) / 2 and nothing else about its levels or hit flags
\* changes; for example an existing signal of confidence 80 and a new one of
\* confidence 60 give 70.
C18_ReinforceAverages ==
    [][/\ (AddStep /\ last_op'.action = "reinforce") => Averaged
       /\ SameDirectionPair(80, 60) =>
            /\ last_op'.action = "reinforce"
            /\ \A kept \in ActiveAfter : kept.confidence = 70]_vars

\* A signal of confidence 80 whose tp1 was hit has been reinforced by a signal
\* of confidence 60: it now has confidence 70 and still carries the flag
C18_Witness ==
    /\ last_op.op = "add_signal"
    /\ last_op.action = "reinforce"
    /\ last_op.signal.confidence = 60
    /\ \E i \in DOMAIN active_signals :
        /\ active_signals[i].confidence = 70
        /\ active_signals[i].tp1_hit
        /\ active_signals[i].timestamp < last_op.signal.timestamp

\* C18, as stated: the same with the example old = 60 and new = 80 giving 70.
C18_AsStated ==
    [][/\ (AddStep /\ last_op'.action = "reinforce") => Averaged
       /\ SameDirectionPair(60, 80) =>
            /\ last_op'.action = "reinforce"
            /\ \A kept \in ActiveAfter : kept.confidence = 70]_vars

----------------------------------------------------------------------------
(* Claims about the price loop and the tracking-event log                  *)

\* C19, as stated: one update_prices call checks every active signal whose
\* symbol has a price in the map, also when another signal closes during the
\* call: storage is told the signal's current price, and the hit its own check
\* gives, if any, is among the returned results.
C19_EverySignalChecked ==
    [][UpdateStep =>
        \A i \in DOMAIN active_signals :
            LET signal == active_signals[i]
                md == last_op'.market_data
            IN  signal.symbol \in DOMAIN md =>
                    LET own == _check_signal_hits(Tracker, signal, md[signal.symbol], now)
                    IN  /\ \E k \in DOMAIN db_calls' :
                            /\ db_calls'[k].call = "update_signal_hits"
                            /\ db_calls'[k].signal_id = signal.signal_id
                            /\ "current_price" \in DOMAIN db_calls'[k].fields
                        /\ own.result.event # "None" =>
                            \E k \in DOMAIN results' :
                                /\ results'[k].signal_id = signal.signal_id
                                /\ results'[k].event = own.result.event]_vars

\* The transitions a step made: hits and closes reported by update_prices,
\* closes asked of storage, and the outcome of an add_signal on an occupied symbol
Transitions ==
    {<<results'[k].signal_id, results'[k].event>> : k \in DOMAIN results'}
    \cup {<<db_calls'[k].signal_id, db_calls'[k].reason>> :
            k \in {j \in DOMAIN db_calls' : db_calls'[j].call = "mark_signal_closed"}}
    \cup (IF last_op'.op = "add_signal" /\ last_op'.action \in {"reinforce", "conflict"}
             /\ IdsOf(symbol_signals, last_op'.signal_id[1]) # <<>>
          THEN {<<IdsOf(symbol_signals, last_op'.signal_id[1])[1], last_op'.action>>}
          ELSE {})

\* C20, as stated: every transition of a tracked signal (a TP or stop-loss hit,
\* a timeout close, a close by replacement, a manual close, a reinforcement, a
\* conflict) appends a tracking event for that signal to the log kept by storage.
C20_EveryTransitionLogged ==
    [][(now' = now /\ last_op'.op # "init") =>
        \A tr \in Transitions :
            \E k \in DOMAIN db_calls' :
                /\ db_calls'[k].call = "save_tracking_event"
                /\ db_calls'[k].signal_id = tr[1]]_vars

----------------------------------------------------------------------------
(* Claims about failing storage                                            *)

\* The step just taken is an add_signal or update_prices call during which
\* every storage call failed
FailedStorageStep ==
    /\ now' = now
    /\ last_op'.op \in {"add_signal", "update_prices"}
    /\ ~last_op'.storage_up

\* What the call of the step leaves in memory and returns when storage works
WithWorkingStorage ==
    IF last_op'.op = "update_prices"
    THEN LET r == update_prices(Tracker, last_op'.market_data, now)
         IN  [active_signals |-> r.t.active_signals,
              symbol_signals |-> r.t.symbol_signals, results |-> r.results]
    ELSE LET t == add_signal(Tracker, last_op'.signal)
         IN  [active_signals |-> t.active_signals,
              symbol_signals |-> t.symbol_signals, results |-> <<>>]

\* C21: when the storage calls of an add_signal or update_prices fail, the
\* call leaves in memory and returns what it does when storage works: the hit
\* the signal's own check finds is among the results and its flag is set, a
\* signal that reached TP3 or its stop-loss is no longer active, and a
\* reinforced confidence is the average.
C21_StorageFailureKept ==
    [][FailedStorageStep =>
        /\ active_signals' = WithWorkingStorage.active_signals
        /\ symbol_signals' = WithWorkingStorage.symbol_signals
        /\ results' = WithWorkingStorage.results
        /\ last_op'.op = "update_prices" =>
            \A i \in DOMAIN active_signals :
                LET signal == active_signals[i]
                    md == last_op'.market_data
                    own == _check_signal_hits(Tracker, signal, md[signal.symbol], now).result
                IN  (signal.symbol \in DOMAIN md /\ own.event # "None") =>
                        /\ \E k \in DOMAIN results' : results'[k] = own
                        /\ own.event \in {"TP3_HIT", "STOP_LOSS_HIT"} =>
                                signal.signal_id \notin ActiveIds(active_signals')
                        /\ own.event = "TP1_HIT" =>
                                \E j \in DOMAIN active_signals' :
                                    /\ active_signals'[j].signal_id = signal.signal_id
                                    /\ active_signals'[j].tp1_hit
                        /\ own.event = "TP2_HIT" =>
                                \E j \in DOMAIN active_signals' :
                                    /\ active_signals'[j].signal_id = signal.signal_id
                                    /\ active_signals'[j].tp2_hit
        /\ (last_op'.op = "add_signal" /\ last_op'.action = "reinforce") => Averaged]_vars

\* An update_prices call during which storage failed has reported a stop-loss
\* hit and the signal is gone from the active set
C21_Witness ==
    /\ last_op.op = "update_prices"
    /\ ~last_op.storage_up
    /\ db_calls # <<>>
    /\ \A k \in DOMAIN db_calls : ~db_calls[k].ok
    /\ \E k \in DOMAIN results : results[k].event = "STOP_LOSS_HIT"
    /\ active_signals = <<>>

----------------------------------------------------------------------------
(* Claims about the health the two kinds of lookup share                   *)

\* C22, as stated: a get_historical_data call changes no adapter's enabled
\* flag and no adapter's error count (the two things that decide whether
\* get_symbol_data uses the adapter), and a get_symbol_data call disables no
\* adapter.
C22_IndependentHealth ==
    [][/\ lookup'.op = "get_historical_data" =>
            \A i \in SourceIds :
                /\ sources'[i].enabled = sources[i].enabled
                /\ sources'[i].error_count = sources[i].error_count
       /\ lookup'.op = "get_symbol_data" =>
            \A i \in SourceIds : sources[i].enabled => sources'[i].enabled]_vars

----------------------------------------------------------------------------
(* Claims about save_signal                                                *)

\* C23: however often save_signal is called with one signal_id, the table
\* holds at most one row for it; a call for an id that is already stored leaves
\* the table as it was, so the row keeps the fields of the first call, and
\* reports success when storage works; a call that reports success leaves
\* exactly one row for its id.
C23_SaveIdempotent ==
    /\ [](\A r1, r2 \in signal_records : r1.signal_id = r2.signal_id => r1 = r2)
    /\ [][saved'.op = "save_signal" =>
            /\ RowsOf(signal_records, saved'.signal.signal_id) # {} =>
                    /\ signal_records' = signal_records
                    /\ saved'.db_up => saved'.result
            /\ saved'.result =>
                    Cardinality(RowsOf(signal_records', saved'.signal.signal_id)) = 1]_vars

\* A second save_signal for a stored id, with another confidence, has reported
\* success and the row still has the confidence of the first call
C23_Witness ==
    /\ saved.op = "save_signal"
    /\ saved.result
    /\ \E r \in signal_records :
        /\ r.signal_id = saved.signal.signal_id
        /\ r.confidence # saved.signal.confidence
    /\ Cardinality(RowsOf(signal_records, saved.signal.signal_id)) = 1

----------------------------------------------------------------------------
(* Claims about the market context in the analysis cycle                   *)

\* The context of the analyzer with a NEUTRAL trend and a MEDIUM volatility level
NeutralMedium ==
    [overall_trend |-> "NEUTRAL", trend_strength |-> Ratio(1, 1),
     market_volatility |-> Ratio(300, 1), volatility_level |-> "MEDIUM"]

\* C24, as stated: when the analyzer reports a HIGH or LOW volatility level,
\* or an overall trend other than NEUTRAL, the confidence or the levels the
\* generator computes from that context differ from those it computes from a
\* neutral, medium-volatility context.
C24_ContextChangesSignal ==
    (/\ returned.op = "run_analysis_cycle"
     /\ \/ returned.market_context.volatility_level \in {"HIGH", "LOW"}
        \/ returned.market_context.overall_trend # "NEUTRAL")
    => \/ returned.confidence #
            _calculate_signal_confidence(applied.candidate.overall_score,
                                         ContextRead(NeutralMedium), applied.candidate)
       \/ returned.levels #
            _calculate_dynamic_levels(applied.candidate.price, applied.direction,
                                      ContextRead(NeutralMedium))

----------------------------------------------------------------------------
(* Claims about _calculate_dynamic_levels                                  *)

\* The call answered from the table lookups, not from the except branch,
\* with both multipliers at 1.0
UnitMultipliers ==
    /\ returned.op = "_calculate_dynamic_levels"
    /\ applied.market_context.volatility # "unhashable"
    /\ volatility_multiplier(applied.market_context.volatility) = 10
    /\ trend_multiplier(applied.market_context.trend_strength) = 10

LevelsFor(trend_strength) ==
    _calculate_dynamic_levels(applied.entry_price, applied.direction,
        [applied.market_context EXCEPT !.trend_strength = trend_strength])

\* The distance of the stop from the entry, in 1/100000
StopOffset(levels) == Abs(levels.stop_loss - applied.entry_price * 100000)

\* Profit and loss are multiples of the entry price; the ratio is compared on
\* the amounts for one unit of price
PerUnit(amount) == amount \div applied.entry_price

\* C28, as stated: the stop-loss offset is the base 1.0% scaled by the
\* volatility multiplier, by the trend-strength multiplier and by 0.8, and the
\* risk/reward ratio of the levels is the same for every trend strength.
C28_StopScaledByTrend ==
    (/\ returned.op = "_calculate_dynamic_levels"
     /\ applied.market_context.volatility # "unhashable"
     /\ applied.entry_price > 0)
    => /\ StopOffset(returned.levels) =
            applied.entry_price * 8
                * volatility_multiplier(applied.market_context.volatility)
                * trend_multiplier(applied.market_context.trend_strength)
       /\ \A trend_strength \in TrendStrengths :
            LET other == _calculate_risk_reward(applied.entry_price,
                            LevelsFor(trend_strength), applied.direction)
            IN  PerUnit(other.num) * PerUnit(returned.risk_reward.den)
                    = PerUnit(returned.risk_reward.num) * PerUnit(other.den)

----------------------------------------------------------------------------
(* Claims about the adapters' retries                                      *)

\* C26, as stated: a get_symbol_data call of any adapter makes a further
\* request exactly after a rate-limit answer, as long as attempts remain: it
\* never makes one after another kind of failure, its waits double from one
\* retry to the next, it makes no more than max_retries requests, and it ends
\* with data or with the empty result.
C26_RetryOnlyOnRateLimit ==
    returned.op = "get_symbol_data" =>
        /\ returned.attempts <= max_retries
        /\ returned.result \in {"data", "empty"}
        /\ \A k \in 1..(returned.attempts - 1) : applied.responses[k] = "rate_limit"
        /\ (applied.responses[1] = "rate_limit") => returned.attempts >= 2
        /\ Len(returned.waits) = returned.attempts - 1
        /\ \A k \in 1..(Len(returned.waits) - 1) :
                returned.waits[k + 1] = 2 * returned.waits[k]

----------------------------------------------------------------------------
(* Claims about the direction rules                                        *)

\* C27: a bullish bias with score > 45 gives BUY with the score as base
\* confidence; a bearish bias with score < 55 gives SELL with 100 - score; a
\* NEUTRAL bias with score > 70 gives BUY above 75 and SELL otherwise, with
\* the score; every other composite gives no direction.
C27_DirectionRules ==
    returned.op = "signal_direction" =>
        LET bias == applied.overall_bias
            score == applied.overall_score
            bullish == bias \in {"STRONG_BULLISH", "BULLISH"} /\ score > 45
            bearish == bias \in {"STRONG_BEARISH", "BEARISH"} /\ score < 55
            neutral == bias = "NEUTRAL" /\ score > 70
        IN  /\ bullish => returned.direction = "BUY" /\ returned.base_confidence = score
            /\ bearish =>
                    returned.direction = "SELL" /\ returned.base_confidence = 100 - score
            /\ (neutral /\ score > 75) =>
                    returned.direction = "BUY" /\ returned.base_confidence = score
            /\ (neutral /\ score <= 75) =>
                    returned.direction = "SELL" /\ returned.base_confidence = score
            /\ ~(bullish \/ bearish \/ neutral) => returned.direction = ""

\* A NEUTRAL composite with score 75 has been given SELL, and base confidence 75
C27_Witness ==
    /\ returned.op = "signal_direction"
    /\ applied.overall_bias = "NEUTRAL"
    /\ applied.overall_score = 75
    /\ returned.direction = "SELL"
    /\ returned.base_confidence = 75

----------------------------------------------------------------------------
(* Claims about _calculate_signal_confidence                               *)

\* The four adjustments of a call, in the order of the code: trend regime,
\* volatility, volume, indicator consensus
Adjustments ==
    LET market_context == applied.market_context
        candidate == applied.candidate
        total == IF candidate.total_indicators > 1 THEN candidate.total_indicators ELSE 1
    IN  <<IF market_context.overall_trend \in {"STRONG_UPTREND", "STRONG_DOWNTREND"} THEN 10
          ELSE IF market_context.overall_trend \in {"UPTREND", "DOWNTREND"} THEN 5 ELSE 0,
          IF market_context.volatility = "LOW" THEN 5
          ELSE IF market_context.volatility = "HIGH" THEN -10 ELSE 0,
          IF candidate.volume.volume * 10 > candidate.volume.avg_volume * 15 THEN 8
          ELSE IF candidate.volume.volume * 10 < candidate.volume.avg_volume * 5 THEN -5
          ELSE 0,
          IF candidate.contributing_indicators * 10 > 6 * total THEN 15
          ELSE IF candidate.contributing_indicators * 10 > 4 * total THEN 8
          ELSE IF candidate.contributing_indicators * 10 > 2 * total THEN 3 ELSE 0>>

\* The running total capped to [0,100] after each of the first n adjustments
RECURSIVE ClampedAfter(_)
ClampedAfter(n) ==
    IF n = 0 THEN applied.base_confidence
    ELSE Clamp(ClampedAfter(n - 1) + Adjustments[n])

\* C29, as stated: the final confidence is the base with the four adjustments
\* added in order, the running total capped to [0,100] after each one; a base
\* of 98 followed by +10 and -10 and no further adjustment ends at 90.
C29_ClampedEachStep ==
    (/\ returned.op = "_calculate_signal_confidence"
     /\ ~applied.candidate.volume.missing)
    => /\ returned.confidence = ClampedAfter(4)
       /\ (applied.base_confidence = 98 /\ Adjustments = <<10, -10, 0, 0>>)
            => returned.confidence = 90

----------------------------------------------------------------------------
(* Claims about the composite                                              *)

\* The indicators of a call whose result carries a strength
WithStrength ==
    {name \in IndicatorNames : /\ applied.indicator_results[name].computed
                               /\ applied.indicator_results[name].has_strength}

----------------------------------------------------------------------------
(* Further claims about add_signal on an occupied symbol                   *)

\* C31, as stated: after add_signal takes the reinforce path, the existing
\* signal's confidence is at least what it was before the call.
C31_ReinforceNeverLowers ==
    [][(AddStep /\ last_op'.action = "reinforce") =>
        \A kept \in ActiveAfter : kept.confidence >= Existing.confidence]_vars

----------------------------------------------------------------------------
(* Further claims about the hit flags                                      *)

\* The signal tracked under signal_id before the step
TrackedBefore(signal_id) ==
    active_signals[CHOOSE i \in DOMAIN active_signals :
                        active_signals[i].signal_id = signal_id]

\* C32: every tracked signal has its hit flags in order (tp2_hit implies
\* tp1_hit, tp3_hit implies tp2_hit), and an update_prices call reports TP2
\* only for a signal whose tp1_hit was set before the call and TP3 only for one
\* whose tp1_hit and tp2_hit were set before the call, so a close by TP3 takes
\* three calls.
C32_HitsInOrder ==
    /\ [](\A i \in DOMAIN active_signals :
            /\ active_signals[i].tp2_hit => active_signals[i].tp1_hit
            /\ active_signals[i].tp3_hit => active_signals[i].tp2_hit)
    /\ [][UpdateStep =>
            \A k \in DOMAIN results' :
                /\ results'[k].event = "TP2_HIT" =>
                        TrackedBefore(results'[k].signal_id).tp1_hit
                /\ results'[k].event = "TP3_HIT" =>
                        /\ TrackedBefore(results'[k].signal_id).tp1_hit
                        /\ TrackedBefore(results'[k].signal_id).tp2_hit]_vars

\* An update_prices call at a price at tp3 has only recorded TP2: the signal
\* is still tracked, with tp1_hit and tp2_hit set and tp3_hit clear
C32_Witness ==
    /\ last_op.op = "update_prices"
    /\ \E k \in DOMAIN results, i \in DOMAIN active_signals :
        /\ results[k].event = "TP2_HIT"
        /\ active_signals[i].signal_id = results[k].signal_id
        /\ results[k].current_price = active_signals[i].tp3
        /\ active_signals[i].tp1_hit
        /\ active_signals[i].tp2_hit
        /\ ~active_signals[i].tp3_hit

----------------------------------------------------------------------------
(* Claims about stored and tracked signals over analysis cycles            *)

\* C33, as stated: at the end of every analysis cycle each row of the signals
\* table with status ACTIVE is for a signal in the tracker's active set.
C33_ActiveRowsTracked ==
    \A r \in signal_records :
        r.status = "ACTIVE" =>
            \E i \in DOMAIN active_signals : active_signals[i].signal_id = r.signal_id

----------------------------------------------------------------------------
(* Claims about the shipped settings                                       *)

\* C34, as stated: with the shipped settings (MIN_CONFIDENCE 0.65,
\* RISK_REWARD_MIN 2.5, MAX_SIGNALS_PER_HOUR 20) there is a combination of
\* snapshot price, composite and market context for which generate_signals
\* returns a signal.
C34_EmissionReachable ==
    (returned.op = "generate_signals" /\ settings = DefaultSettings) => returned.emits

----------------------------------------------------------------------------
(* Claims about the composite and the direction rules                      *)

\* C35: for every composite of _calculate_composite_scores, a NEUTRAL bias
\* comes with a score from 45 to 55 and gives no direction; a bullish bias
\* comes with a score above 45 and gives BUY; a bearish bias comes with a
\* score below 55 and gives SELL with a base confidence above 55.
C35_NeutralBranchUnused ==
    returned.op = "signal_direction" =>
        LET num == returned.composite.overall_score.num
            den == returned.composite.overall_score.den
            bias == returned.composite.overall_bias
        IN  /\ bias = "NEUTRAL" =>
                /\ 45 * den <= num /\ num <= 55 * den
                /\ returned.direction = ""
            /\ bias \in {"STRONG_BULLISH", "BULLISH"} =>
                /\ num > 45 * den
                /\ returned.direction = "BUY"
            /\ bias \in {"STRONG_BEARISH", "BEARISH"} =>
                /\ num < 55 * den
                /\ returned.direction = "SELL"
                /\ returned.base_confidence.num > 55 * returned.base_confidence.den

\* A composite of one indicator with strength 30 is BEARISH with score 30 and
\* has been given SELL with base confidence 70
C35_Witness ==
    /\ returned.op = "signal_direction"
    /\ returned.composite.overall_bias = "BEARISH"
    /\ returned.composite.overall_score = Ratio(450, 15)
    /\ returned.direction = "SELL"
    /\ returned.base_confidence = Ratio(1050, 15)


----------------------------------------------------------------------------
(* Claims about which adapters a lookup reaches                            *)

\* C36, as stated: every adapter call made by get_symbol_data or
\* get_historical_data goes to an adapter whose own initialize has succeeded
\* (its is_initialized is true at the moment of the call).
C36_OnlyInitializedInvoked ==
    lookup.op \in {"get_symbol_data", "get_historical_data"} =>
        \A k \in DOMAIN lookup.calls : lookup.calls[k].is_initialized


----------------------------------------------------------------------------
(* Claims about the errors get_symbol_data records                         *)

\* The calls of a lookup on adapter i that failed: no data, or a raise
FailedCalls(calls, i) ==
    {k \in DOMAIN calls : calls[k].source = i /\ calls[k].outcome # "data"}

\* C37, as stated: every adapter call of get_symbol_data that fails (the adapter
\* raises or returns no data, the current adapter included) adds one to that
\* adapter's error count.
C37_EveryFailureCounted ==
    [][lookup'.op = "get_symbol_data" =>
        \A i \in SourceIds :
            sources'[i].error_count =
                sources[i].error_count + Cardinality(FailedCalls(lookup'.calls, i))]_vars


----------------------------------------------------------------------------
(* Claims about a snapshot without a usable price                          *)

HitEvents == {"TP1_HIT", "TP2_HIT", "TP3_HIT", "STOP_LOSS_HIT"}

\* C38, as stated: an update_prices call in which a symbol's price is 0 reports
\* no take-profit or stop-loss hit for a signal of that symbol, sets none of
\* its hit flags, and closes it only when it has timed out.
C38_ZeroPriceNeverHits ==
    [][UpdateStep =>
        \A s \in DOMAIN last_op'.market_data :
            last_op'.market_data[s] = 0 =>
                /\ \A k \in DOMAIN results' :
                        results'[k].symbol = s => results'[k].event \notin HitEvents
                /\ \A i \in DOMAIN active_signals :
                        active_signals[i].symbol = s =>
                            \/ active_signals[i] \in
                                    {active_signals'[j] : j \in DOMAIN active_signals'}
                            \/ \E k \in DOMAIN results' :
                                    /\ results'[k].signal_id = active_signals[i].signal_id
                                    /\ results'[k].event = "SIGNAL_CLOSED"]_vars

====
